---- MODULE Spec2Model ----
(***************************************************************************)
(* Carebot command and control core: the WebSocket agent (src/app.py), the *)
(* gesture routines (src/commands/arm_actions) and the face tracking       *)
(* controller (src/commands/face_tracking/controller.py), and the MQTT      *)
(* agent (src/app_mqtt.py) where it differs.                               *)
(*                                                                         *)
(* Threads of the program: the transport callback thread ("main", runs     *)
(* _on_message for one envelope at a time), one Action-<cmd> thread per    *)
(* started gesture, one FaceTrackingThread per FaceTrackingController      *)
(* start(), and the JointTelemetry thread.                                 *)
(*                                                                         *)
(* Time is abstracted.  A bounded join (join(timeout=2.0)) returns when    *)
(* the joined thread is dead, or by timeout when the joined thread cannot  *)
(* finish: it waits for a lock the joiner holds, or it is stalled in a     *)
(* blocking call of the camera (its open or a read).  A thread that polls  *)
(* its flag every 50 ms and is free to run is taken to answer within the   *)
(* 2 s.                                                                    *)
(***************************************************************************)
EXTENDS Integers, Sequences, FiniteSets, TLC

\* ------------------------------------------------------------------ bounds
\* number of command envelopes handled in one behaviour of Spec
MaxCmds == 3
\* number of command envelopes handled in one behaviour of SpecFull
MaxFullCmds == 2
\* number of command envelopes handled in one behaviour of SpecPoses
MaxPoseCmds == 1
\* number of gesture commands handled in one behaviour of SpecGestures
MaxGestureCmds == 3
\* number of 50 ms polls of the cancel flag in one interruptible hold
HoldSteps == 1

\* --------------------------------------------------------------- constants
NoThread == 0
NoneV == -9999
SP == " "
AngleMin == 0
AngleMax == 180
TiltMax == 360

\* ----------------------------------------------------------- pure helpers
Min2(a, b) == IF a < b THEN a ELSE b
Max2(a, b) == IF a > b THEN a ELSE b

\* max(0, min(180, int(v)))
ClampAngle(v) == Max2(AngleMin, Min2(AngleMax, v))

\* max(0, int(time_ms))
ClampTime(t) == Max2(0, t)

\* Python int(a / b) for b > 0: truncation toward zero
TruncDiv(a, b) == IF a >= 0 THEN a \div b ELSE -((-a) \div b)

RECURSIVE LStrip(_)
LStrip(s) == IF s # << >> /\ Head(s) = SP THEN LStrip(Tail(s)) ELSE s
RECURSIVE RStrip(_)
RStrip(s) ==
    IF s # << >> /\ s[Len(s)] = SP THEN RStrip(SubSeq(s, 1, Len(s) - 1)) ELSE s
\* str.strip() on a command given as a sequence of tokens (SP is whitespace)
Strip(s) == RStrip(LStrip(s))

\* cmd = (data.get("command") or "").strip()
CommandOf(env) == IF env.hasCmd THEN Strip(env.command) ELSE << >>

\* only S5 is mirrored: the mutant of MirrorForRight
MirrorForRightWristOnly(p) ==
    [i \in 1..6 |-> IF i = 5 THEN ClampAngle(AngleMax - p[i]) ELSE p[i]]
\* mirror_for_right: S1 and S5 become 180 - v, clamped
MirrorForRight(p) ==
    [i \in 1..6 |-> IF i \in {1, 5} THEN ClampAngle(AngleMax - p[i]) ELSE p[i]]

\* ---------------------------------------------------------- command tables
\* "face_tracking_kr" stands for the third, non-ASCII synonym of the source
StartTrackingCmds ==
    {<<"face_tracking">>, <<"face_tracking_mode">>, <<"face_tracking_kr">>}
StopTrackingCmds == {<<"stop_face_tracking">>, <<"stop_face_tracking_mode">>}
HeartCmds == {<<"make_heart">>}
HugCmds == {<<"hug">>, <<"make_hug">>}
InitPoseCmds == {<<"init_pose">>, <<"init">>, <<"ready_pose">>}
GestureCmds == HeartCmds \cup HugCmds \cup InitPoseCmds
ManualCmds == {<<"set_joint">>, <<"set_joints">>, <<"nudge_joint">>}
MappedCmds == StartTrackingCmds \cup StopTrackingCmds \cup GestureCmds \cup ManualCmds

\* the gesture routine a gesture command runs
GestureOf(cmd) ==
    IF cmd \in HeartCmds THEN "heart"
    ELSE IF cmd \in HugCmds THEN "hug"
    ELSE "init"

\* ------------------------------------------------------------ gesture data
NeutralPose == <<90, 150, 20, 20, 90, 30>>
InitNeutralPose == <<90, 90, 90, 90, 90, 90>>
HeartLeftPoses ==
    << <<0, 115, 40, 20, 90, 0>>, <<0, 50, 55, 20, 90, 0>>, <<0, 50, 25, 0, 90, 0>> >>
HugLeftOpen == <<90, 90, 85, 65, 90, 30>>
HugLeftClose1 == <<90, 85, 65, 65, 90, 30>>
HugLeftClose2 == <<90, 65, 60, 80, 90, 30>>
HugLeftPatA == <<90, 65, 60, 55, 90, 120>>
HugLeftPatB == <<90, 65, 60, 70, 90, 30>>

\* poses as written for a robot id
Oriented(p, rid) == IF rid = "robot_right" THEN MirrorForRight(p) ELSE p

\* instructions of a gesture routine: a reliable write (W), a direct write
\* without any lock (D), an interruptible hold (H)
W(p, ms) == [op |-> "W", pose |-> p, ms |-> ms]
D(p, ms) == [op |-> "D", pose |-> p, ms |-> ms]
H == [op |-> "H", pose |-> NeutralPose, ms |-> 0]

HeartMoveMs == 1200
HugMoveMs == 1100
HugPatMs == 450
HugBackMs == 1200
InitMoveMs == 1200
TrackerMoveMs == 500

HeartProg(rid) ==
    << W(Oriented(HeartLeftPoses[1], rid), HeartMoveMs), H, H,
       W(Oriented(HeartLeftPoses[2], rid), HeartMoveMs), H, H,
       W(Oriented(HeartLeftPoses[3], rid), HeartMoveMs), H,
       H,
       W(NeutralPose, HeartMoveMs), H >>

HugProg(rid) ==
    << W(Oriented(HugLeftOpen, rid), HugMoveMs), H,
       W(Oriented(HugLeftClose1, rid), HugMoveMs), H, H,
       W(Oriented(HugLeftClose2, rid), HugMoveMs), H,
       W(Oriented(HugLeftPatA, rid), HugPatMs), H, H,
       W(Oriented(HugLeftPatB, rid), HugPatMs), H, H,
       W(Oriented(HugLeftPatA, rid), HugPatMs), H, H,
       W(Oriented(HugLeftPatB, rid), HugPatMs), H, H,
       W(NeutralPose, HugBackMs), H >>

InitPoseProg == << D(InitNeutralPose, InitMoveMs), H, H >>

GestureProg(g, rid) ==
    IF g = "heart" THEN HeartProg(rid)
    ELSE IF g = "hug" THEN HugProg(rid)
    ELSE InitPoseProg

CancelledOutcome(g) ==
    IF g = "heart" THEN "heart_cancelled"
    ELSE IF g = "hug" THEN "hug_cancelled"
    ELSE "init_cancelled"
CompletedOutcome(g) ==
    IF g = "heart" THEN "heart_completed"
    ELSE IF g = "hug" THEN "hug_completed"
    ELSE "init_completed"

\* -------------------------------------------------------------------- state
VARIABLES
    armAvail,      \* CarebotApp.arm is not None
    trackerAvail,  \* CarebotApp.face_tracking is not None: the arm existed when
                   \* the program was constructed
    ledAvail,      \* hasattr(self.arm, "Arm_RGB_set") of the device
    robotId,       \* ArmActions.robot_id
    cmdCount,      \* callbacks (envelopes, open, error, close) handled so far
    mainPc,        \* position of the transport callback thread in _on_message
    mainCmd,       \* cmd of the envelope being handled
    mainArg,       \* data of the envelope being handled, and the arguments
                   \* of the manual operation being executed
    out,           \* events sent by the callback thread for the current envelope
    cmdLock,       \* owner of CarebotApp._cmd_lock
    armLock,       \* owner of the shared CarebotApp._arm_io_lock
    actionThread,  \* CarebotApp._action_thread
    actionCancel,  \* CarebotApp._action_cancel
    currentCmd,    \* CarebotApp._current_cmd
    cancel,        \* cancel[i]: the Event made by _start_action for thread i
    thr,           \* the Action-<cmd> threads
    nThr,          \* number of Action threads created
    ftThread,      \* FaceTrackingController._thread
    stopEvent,     \* FaceTrackingController._stop_event
    loops,         \* the FaceTrackingThread threads
    nLoops,        \* number of FaceTrackingThread threads created
    targetX,       \* FaceTrackingController._target_servox
    targetY,       \* FaceTrackingController._target_servoy
    telPc,         \* position of the JointTelemetry thread
    tel,           \* the locals of the JointTelemetry loop and what it has sent
    agent,         \* the program that runs: app.py ("ws") or app_mqtt.py ("mqtt")
    telemetryStop, \* CarebotApp._telemetry_stop
    inCall         \* the device calls (Arm_Lib) in progress

mainVars == <<cmdCount, mainPc, mainCmd, mainArg, out>>
lockVars == <<cmdLock, armLock>>
actVars == <<actionThread, actionCancel, currentCmd, cancel, thr, nThr>>
trkVars == <<ftThread, stopEvent, loops, nLoops, targetX, targetY>>
telVars == <<telPc, tel, agent, telemetryStop>>
devVars == <<trackerAvail, ledAvail, robotId>>
vars == <<armAvail, devVars, mainVars, lockVars, actVars, trkVars, telVars, inCall>>

\* owners of a lock and callers of the device
Free == 0
MainId == 100
TelId == 200
LoopId(j) == 10 + j
ThreadIds == 1..Max2(Max2(MaxCmds, MaxGestureCmds), Max2(MaxFullCmds, MaxPoseCmds))

\* a threading.Event made by _preempt_current itself, known to no thread
FreshEvent == -1

NoCmd == << >>
\* a key that the envelope does not have: data.get(key, default) gives default
AbsentV == -9998
\* a truthy value that int() rejects (a string such as "abc")
RejectedV == -9997
\* a falsy value that int() rejects (such as "", [] or {})
EmptyV == -9996
\* data.get(key, default)
GetOr(v, default) == IF v = AbsentV THEN default ELSE v
\* the fields of an envelope that the manual handlers read; delta10 is the
\* delta in tenths, so that the JSON number 2.5 is the integer 25
NoAngles == [list |-> FALSE, items |-> << >>]
NoData ==
    [id |-> NoneV, sid |-> NoneV, angle |-> NoneV, delta10 |-> AbsentV,
     angles |-> NoAngles, t |-> AbsentV]
NoArg ==
    [op |-> "none", sid |-> 0, delta |-> 0, raw |-> NoneV, angles |-> << >>,
     t |-> 0, data |-> NoData]

\* events sent through _send
Ev(type, cmd, status, error) ==
    [type |-> type, command |-> cmd, status |-> status, error |-> error,
     outcome |-> ""]
\* the result event of a manual operation (it carries the outcome string)
OutcomeEv(cmd, outcome) ==
    [type |-> "result", command |-> cmd,
     status |-> IF outcome = "ok" THEN "ok" ELSE "error", error |-> "",
     outcome |-> outcome]

\* a device call in progress; angles are in half degrees, so that the
\* tracker's target_servoy / 2.0 is exact
Call(who, lock, op, sid, angles2, t) ==
    [who |-> who, lock |-> lock, op |-> op, sid |-> sid, angles2 |-> angles2,
     t |-> t, rgb |-> << >>]
\* the colours of _led_set
Red == <<50, 0, 0>>
Green == <<0, 50, 0>>
Blue == <<0, 0, 50>>
\* Arm_RGB_set(r, g, b) in progress, under the shared lock
LedCall(who, rgb) ==
    [Call(who, "shared", "rgb", 0, << >>, 0) EXCEPT !.rgb = rgb]
Half(p) == [i \in 1..Len(p) |-> 2 * p[i]]

UnbornThread ==
    [st |-> "unborn", g |-> "none", ph |-> "none", ip |-> 0, sub |-> "a",
     n |-> 0, outcome |-> "none", status |-> "none"]
\* cx, cy: the centroid of the detection in hand; ax: the axis being updated;
\* sent: the error events the loop has given to the callback
UnbornLoop ==
    [st |-> "unborn", ph |-> "none", lastx |-> NoneV, lasty |-> NoneV,
     ax |-> "-", cx |-> 0, cy |-> 0, joints2 |-> << >>, sent |-> << >>]

\* a thread that has ended (its locals are gone)
DeadThread == [UnbornThread EXCEPT !.st = "dead"]
DeadLoop == [UnbornLoop EXCEPT !.st = "dead"]

\* Thread.is_alive()
ThreadAlive(i) == i # NoThread /\ thr[i].st = "alive"
LoopAlive(j) == j # NoThread /\ loops[j].st = "alive"
\* FaceTrackingController.is_running()
IsRunning == ftThread # NoThread /\ LoopAlive(ftThread)

\* ------------------------------------------------------------------ inputs
RobotIds == {"robot_left", "robot_right"}
\* the command strings of Spec: its one gesture is init_pose
CoreCommands ==
    { << >>, <<SP>>, <<"bogus">>, <<"face_tracking">>, <<"stop_face_tracking">>,
      <<SP, "init_pose", SP>>, <<"set_joint">>, <<"set_joints">>,
      <<"nudge_joint">> }
\* the command strings of SpecPoses: every gesture
RawCommands == CoreCommands \cup { <<"make_heart">>, <<"hug">> }
\* the values of the data fields: None (NoneV) is a key that is absent or
\* null (for time_ms: null, the absent key being AbsentV), RejectedV a truthy
\* and EmptyV a falsy value that int() rejects
IdInputs == {NoneV, 0, 3, 7, RejectedV, EmptyV}
SidInputs == {NoneV, 3}
AngleInputs == {NoneV, -5, 90, 250, RejectedV}
TimeInputs == {AbsentV, NoneV, RejectedV, -10, 500}
AnglesInputs ==
    { NoAngles, [list |-> TRUE, items |-> << >>],
      [list |-> TRUE, items |-> <<1, 2, 3>>],
      [list |-> TRUE, items |-> <<1, RejectedV, 3>>],
      [list |-> TRUE, items |-> <<-5, 90, 250, 0, 180, 181>>],
      [list |-> TRUE, items |-> <<90, 90, RejectedV, 90, 90, 90>>],
      [list |-> TRUE, items |-> <<90, 90, NoneV, 90, 90, 90>>] }
DeltaInputs == {AbsentV, NoneV, RejectedV, -300, 100, 25}
ReadValues == {NoneV, 10, 175}
\* the data of the envelopes of a manual command
SetJointData ==
    {[NoData EXCEPT !.id = i, !.sid = s, !.angle = a, !.t = t] :
        i \in IdInputs, s \in SidInputs, a \in AngleInputs, t \in TimeInputs}
SetJointsData ==
    {[NoData EXCEPT !.angles = a, !.t = t] : a \in AnglesInputs, t \in TimeInputs}
NudgeJointData ==
    {[NoData EXCEPT !.id = i, !.sid = s, !.delta10 = d, !.t = t] :
        i \in IdInputs, s \in SidInputs, d \in DeltaInputs, t \in TimeInputs}
DataOf(cmd) ==
    IF cmd = <<"set_joint">> THEN SetJointData
    ELSE IF cmd = <<"set_joints">> THEN SetJointsData
    ELSE IF cmd = <<"nudge_joint">> THEN NudgeJointData
    ELSE {NoData}
\* a few of them, for the specifications that are about the threads
CoreSetJointData ==
    {[NoData EXCEPT !.id = 3, !.angle = 250, !.t = 500],
     [NoData EXCEPT !.id = 7, !.angle = 90]}
CoreSetJointsData ==
    {[NoData EXCEPT !.angles = [list |-> TRUE, items |-> <<1, 2, 3>>]],
     [NoData EXCEPT !.angles =
         [list |-> TRUE, items |-> <<-5, 90, 250, 0, 180, 181>>], !.t = -10]}
CoreNudgeJointData ==
    {[NoData EXCEPT !.id = 3, !.delta10 = 100, !.t = 500],
     [NoData EXCEPT !.sid = 3, !.delta10 = NoneV]}
CoreDataOf(cmd) ==
    IF cmd = <<"set_joint">> THEN CoreSetJointData
    ELSE IF cmd = <<"set_joints">> THEN CoreSetJointsData
    ELSE IF cmd = <<"nudge_joint">> THEN CoreNudgeJointData
    ELSE {NoData}

\* the envelopes with the commands; every: with every value of the data fields
EnvelopesOf(commands, every) ==
    {[kind |-> "badjson", hasCmd |-> FALSE, command |-> << >>, data |-> NoData],
     [kind |-> "typed", hasCmd |-> FALSE, command |-> << >>, data |-> NoData],
     [kind |-> "command", hasCmd |-> FALSE, command |-> << >>, data |-> NoData]}
    \cup UNION {{[kind |-> "command", hasCmd |-> TRUE, command |-> c, data |-> d] :
                    d \in IF every THEN DataOf(Strip(c))
                                  ELSE CoreDataOf(Strip(c))} : c \in commands}
CoreEnvelopes == EnvelopesOf(CoreCommands, FALSE)
\* the envelopes of SpecGestures: hug and init_pose
GestureEnvelopes ==
    {[kind |-> "command", hasCmd |-> TRUE, command |-> c, data |-> NoData] :
        c \in {<<"hug">>, <<"init_pose">>}}
\* the envelopes of SpecPoses: every gesture
PoseEnvelopes == EnvelopesOf(RawCommands, FALSE)
\* the envelopes of SpecManual: every value of the data fields
ManualEnvelopes == EnvelopesOf(ManualCmds, TRUE)

\* the two programs of the repository
Agents == {"ws", "mqtt"}
\* a snapshot of the six joint angles; None (NoneV) is an axis that was not read
AllNone == <<NoneV, NoneV, NoneV, NoneV, NoneV, NoneV>>
\* what the telemetry loop has not sent yet
NoEvent == [angles |-> << >>, seq |-> NoneV]
\* the locals of _loop at its start: last = [None] * 6, first_sent = False,
\* last_force = 0.0 (so the force interval has elapsed), _telemetry_seq = 0
InitTel ==
    [last |-> AllNone, firstSent |-> FALSE, due |-> TRUE, force |-> FALSE,
     fallback |-> FALSE,
     angles |-> << >>, seq |-> 0, sent |-> 0, ev |-> NoEvent]

\* the state after CarebotApp.__init__, for the robot ids rids, the programs
\* agents and the devices with (TRUE) and without (FALSE) Arm_RGB_set in leds
InitOf(rids, agents, leds) ==
    /\ armAvail \in BOOLEAN
    /\ trackerAvail = armAvail
    /\ ledAvail \in IF armAvail THEN leds ELSE {FALSE}
    /\ robotId \in rids
    /\ cmdCount = 0
    /\ mainPc = "idle"
    /\ mainCmd = NoCmd
    /\ mainArg = NoArg
    /\ out = << >>
    /\ cmdLock = Free
    /\ armLock = Free
    /\ actionThread = NoThread
    /\ actionCancel = NoThread
    /\ currentCmd = NoCmd
    /\ cancel = [i \in ThreadIds |-> FALSE]
    /\ thr = [i \in ThreadIds |-> UnbornThread]
    /\ nThr = 0
    /\ ftThread = NoThread
    /\ stopEvent = FALSE
    /\ loops = [j \in ThreadIds |-> UnbornLoop]
    /\ nLoops = 0
    /\ targetX = 90
    /\ targetY = 45
    /\ telPc = "idle"
    /\ tel = InitTel
    /\ agent \in agents
    /\ telemetryStop = FALSE
    /\ inCall = {}

\* ------------------------------------------- the callback thread: router
\* the router without the strip() of the command: the mutant of RouterEvents
RouterEventsNoStrip(env) ==
    IF env.kind = "badjson" THEN <<Ev("error", NoCmd, "", "invalid_json")>>
    ELSE IF env.kind = "typed" THEN << >>
    ELSE IF ~env.hasCmd \/ env.command = << >>
         THEN <<Ev("error", NoCmd, "", "missing_command")>>
         ELSE <<Ev("ack", env.command, "accepted", "")>>
\* what _on_message sends before preemption, and whether it goes on
RouterEvents(env) ==
    IF env.kind = "badjson" THEN <<Ev("error", NoCmd, "", "invalid_json")>>
    ELSE IF env.kind = "typed" THEN << >>
    ELSE IF CommandOf(env) = << >>
         THEN <<Ev("error", NoCmd, "", "missing_command")>>
         ELSE <<Ev("ack", CommandOf(env), "accepted", "")>>
RouterAccepts(env) == env.kind = "command" /\ CommandOf(env) # << >>

\* _led_set can reach the device: app.py with an arm whose device has
\* Arm_RGB_set (app_mqtt.py has no _led_set). self.arm itself is tested
\* when _led_set is called
LedPossible == trackerAvail /\ ledAvail /\ agent = "ws"
\* the position of a thread that comes to a _led_set before `next`
LedThen(led, next) == IF LedPossible THEN led ELSE next

\* the step that follows the accepted acknowledgement and its LED
AfterAckDispatch == "dispatch"
AfterAck == "pre_lock"

\* the positions of the callback thread at a _led_set, and what follows
MainLedPcs == {"led_ack", "led_end"}
MainLedCallPcs == {"led_ack_c", "led_end_c"}
AfterMainLed(pc) == IF pc \in {"led_ack", "led_ack_c"} THEN AfterAck ELSE "idle"
\* red on receipt; at the end of a handler green for a tracker that runs and
\* blue for one that was stopped
MainLedColour(pc, cmd) ==
    IF pc = "led_ack" THEN Red
    ELSE IF cmd \in StartTrackingCmds THEN Green
    ELSE Blue

\* _on_message up to the acknowledgement (src/app.py 130-156)
Receive(env, max) ==
    /\ mainPc = "idle"
    /\ cmdCount < max
    /\ cmdCount' = cmdCount + 1
    /\ out' = RouterEvents(env)
    /\ mainArg' = IF RouterAccepts(env) THEN [NoArg EXCEPT !.data = env.data]
                  ELSE NoArg
    /\ IF RouterAccepts(env)
       THEN /\ mainCmd' = CommandOf(env)
            /\ mainPc' = LedThen("led_ack", AfterAck)
       ELSE /\ mainCmd' = NoCmd
            /\ mainPc' = "idle"
    /\ UNCHANGED <<armAvail, devVars, lockVars, actVars, trkVars, telVars, inCall>>

\* --------------------------------------------------- preemption coordinator
\* a join without a timeout: the mutant of JoinReturns
JoinWaitsForExit(alive, blocked) == ~alive
\* Thread.join(timeout=2.0): returns when the thread is dead, or by timeout
\* when the thread cannot finish
JoinReturns(alive, blocked) == (~alive) \/ blocked

\* an Action thread that waits for a lock owned by `owner`
ThreadBlockedBy(i, owner) == thr[i].ph = "fin_lock" /\ cmdLock = owner
\* a tracker loop that is inside a blocking call of the camera
\* (cv.VideoCapture, cap.read), or waits for the arm lock owned by `owner`
LoopBlockedBy(j, owner) ==
    \/ loops[j].ph \in {"open", "read"}
    \/ loops[j].ph = "w" /\ armLock = owner

\* a holder that keeps the lock when it leaves: the mutant of AfterWith
AfterWithLeak(owner) == owner
\* the owner of _arm_io_lock once `owner` has left its `with` block, or the
\* finally that releases what it acquired: the device call returned or raised
AfterWith(owner) == Free

\* the owner of _cmd_lock once _preempt_current has returned
PreemptReleases == Free

\* _led_set of the callback thread: with self._arm_io_lock, Arm_RGB_set
\* begins; when self.arm is None, nothing is done (self.arm is set to None
\* by the callback thread only, so the test of self.arm and the acquire that
\* follows it see the same arm)
MainLedBegin ==
    /\ mainPc \in MainLedPcs
    /\ IF armAvail
       THEN /\ armLock = Free
            /\ armLock' = MainId
            /\ inCall' = inCall \cup
                            {LedCall(MainId, MainLedColour(mainPc, mainCmd))}
            /\ mainPc' = IF mainPc = "led_ack" THEN "led_ack_c" ELSE "led_end_c"
       ELSE /\ mainPc' = AfterMainLed(mainPc)
            /\ UNCHANGED <<armLock, inCall>>
    /\ UNCHANGED <<armAvail, devVars, cmdCount, mainCmd, mainArg, out, cmdLock,
                   actVars, trkVars, telVars>>

\* _led_set of the callback thread: Arm_RGB_set returns (or raises, which is
\* swallowed) and the lock is released
MainLedEnd ==
    /\ mainPc \in MainLedCallPcs
    /\ armLock' = AfterWith(MainId)
    /\ inCall' = {c \in inCall : c.who # MainId}
    /\ mainPc' = AfterMainLed(mainPc)
    /\ UNCHANGED <<armAvail, devVars, cmdCount, mainCmd, mainArg, out, cmdLock,
                   actVars, trkVars, telVars>>

\* _preempt_current: with self._cmd_lock
PreLock ==
    /\ mainPc = "pre_lock"
    /\ cmdLock = Free
    /\ cmdLock' = MainId
    /\ mainPc' = "pre_track"
    /\ UNCHANGED <<armAvail, devVars, cmdCount, mainCmd, mainArg, out, armLock,
                   actVars, trkVars, telVars, inCall>>

\* _preempt_current: face_tracking.stop() up to its join
PreTrack ==
    /\ mainPc = "pre_track"
    /\ IF trackerAvail /\ IsRunning
       THEN /\ stopEvent' = TRUE
            /\ mainPc' = "pre_track_join"
       ELSE /\ mainPc' = "pre_action"
            /\ UNCHANGED stopEvent
    /\ UNCHANGED <<armAvail, devVars, cmdCount, mainCmd, mainArg, out, lockVars,
                   actVars, ftThread, loops, nLoops, targetX, targetY, telVars,
                   inCall>>

\* FaceTrackingController.stop(): self._thread.join(timeout=2.0); _thread = None
PreTrackJoin ==
    /\ mainPc = "pre_track_join"
    /\ JoinReturns(LoopAlive(ftThread), LoopBlockedBy(ftThread, MainId))
    /\ ftThread' = NoThread
    /\ mainPc' = "pre_action"
    /\ UNCHANGED <<armAvail, devVars, cmdCount, mainCmd, mainArg, out, lockVars,
                   actVars, stopEvent, loops, nLoops, targetX, targetY, telVars,
                   inCall>>

\* _preempt_current: cancel the running action thread, or clear and return
PreAction ==
    /\ mainPc = "pre_action"
    /\ IF ThreadAlive(actionThread)
       THEN /\ actionCancel' =
                  IF actionCancel = NoThread THEN FreshEvent ELSE actionCancel
            /\ cancel' = IF actionCancel \in ThreadIds
                         THEN [cancel EXCEPT ![actionCancel] = TRUE]
                         ELSE cancel
            /\ mainPc' = "pre_action_join"
            /\ UNCHANGED <<actionThread, currentCmd, cmdLock>>
       ELSE /\ actionThread' = NoThread
            /\ actionCancel' = NoThread
            /\ currentCmd' = NoCmd
            /\ cmdLock' = PreemptReleases
            /\ mainPc' = "dispatch"
            /\ UNCHANGED cancel
    /\ UNCHANGED <<armAvail, devVars, cmdCount, mainCmd, mainArg, out, armLock,
                   thr, nThr, trkVars, telVars, inCall>>

\* _preempt_current: self._action_thread.join(timeout=2.0), clear, return
PreActionJoin ==
    /\ mainPc = "pre_action_join"
    /\ JoinReturns(ThreadAlive(actionThread), ThreadBlockedBy(actionThread, MainId))
    /\ actionThread' = NoThread
    /\ actionCancel' = NoThread
    /\ currentCmd' = NoCmd
    /\ cmdLock' = PreemptReleases
    /\ mainPc' = "dispatch"
    /\ UNCHANGED <<armAvail, devVars, cmdCount, mainCmd, mainArg, out, armLock,
                   cancel, thr, nThr, trkVars, telVars, inCall>>

\* ------------------------------------------------------- command handlers
\* _cmd_start_face_tracking, with FaceTrackingController.start(), up to the
\* _led_set that ends it
CmdStartFaceTracking ==
    /\ mainPc = "dispatch"
    /\ mainCmd \in StartTrackingCmds
    /\ IF ~trackerAvail
       THEN /\ out' = Append(out, Ev("result", mainCmd, "error",
                                     "arm_or_tracker_unavailable"))
            /\ UNCHANGED trkVars
       ELSE /\ IF ftThread # NoThread /\ LoopAlive(ftThread)
               THEN UNCHANGED trkVars
               ELSE /\ stopEvent' = FALSE
                    /\ nLoops' = nLoops + 1
                    /\ loops' = [loops EXCEPT ![nLoops + 1] =
                                   [UnbornLoop EXCEPT !.st = "alive", !.ph = "open"]]
                    /\ ftThread' = nLoops + 1
                    /\ UNCHANGED <<targetX, targetY>>
            /\ out' = Append(out, Ev("result", mainCmd, "running", ""))
    /\ mainPc' = LedThen("led_end", "idle")
    /\ UNCHANGED <<armAvail, devVars, cmdCount, mainCmd, mainArg, lockVars,
                   actVars, telVars, inCall>>

\* _cmd_stop_face_tracking, with FaceTrackingController.stop() up to its join
CmdStopFaceTracking ==
    /\ mainPc = "dispatch"
    /\ mainCmd \in StopTrackingCmds
    /\ IF ~trackerAvail
       THEN /\ out' = Append(out, Ev("result", mainCmd, "error",
                                     "tracker_unavailable"))
            /\ mainPc' = "idle"
            /\ UNCHANGED stopEvent
       ELSE IF ftThread = NoThread
       THEN /\ out' = Append(out, Ev("result", mainCmd, "not_running", ""))
            /\ mainPc' = LedThen("led_end", "idle")
            /\ UNCHANGED stopEvent
       ELSE /\ stopEvent' = TRUE
            /\ mainPc' = "stop_join"
            /\ UNCHANGED out
    /\ UNCHANGED <<armAvail, devVars, cmdCount, mainCmd, mainArg, lockVars,
                   actVars, ftThread, loops, nLoops, targetX, targetY, telVars,
                   inCall>>

\* FaceTrackingController.stop(): the join, _thread = None, and the result,
\* up to the _led_set that ends the handler
CmdStopJoin ==
    /\ mainPc = "stop_join"
    /\ JoinReturns(LoopAlive(ftThread), LoopBlockedBy(ftThread, MainId))
    /\ ftThread' = NoThread
    /\ out' = Append(out, Ev("result", mainCmd, "stopped", ""))
    /\ mainPc' = LedThen("led_end", "idle")
    /\ UNCHANGED <<armAvail, devVars, cmdCount, mainCmd, mainArg, lockVars,
                   actVars, stopEvent, loops, nLoops, targetX, targetY, telVars,
                   inCall>>

\* self.actions is not None: app.py builds ArmActions when the arm exists at
\* construction; app_mqtt.py passes config=, a keyword ArmActions.__init__
\* does not take, so the TypeError is caught and self.actions stays None
ActionsAvail == trackerAvail /\ agent = "ws"

\* _cmd_make_heart, _cmd_hug, _cmd_init_pose up to _start_action
CmdGesture ==
    /\ mainPc = "dispatch"
    /\ mainCmd \in GestureCmds
    /\ IF ~ActionsAvail
       THEN /\ out' = Append(out, Ev("result", mainCmd, "error", "arm_unavailable"))
            /\ mainPc' = "idle"
       ELSE /\ mainPc' = "sa_lock"
            /\ UNCHANGED out
    /\ UNCHANGED <<armAvail, devVars, cmdCount, mainCmd, mainArg, lockVars,
                   actVars, trkVars, telVars, inCall>>

\* _start_action: the body under self._cmd_lock
StartAction ==
    /\ mainPc = "sa_lock"
    /\ cmdLock = Free
    /\ nThr' = nThr + 1
    /\ actionCancel' = nThr + 1
    /\ currentCmd' = mainCmd
    /\ out' = Append(out, Ev("progress", mainCmd, "started", ""))
    /\ thr' = [thr EXCEPT ![nThr + 1] =
                 [UnbornThread EXCEPT !.st = "alive", !.g = GestureOf(mainCmd),
                                      !.ph = LedThen("led_run", "run"),
                                      !.ip = 1, !.n = HoldSteps]]
    /\ actionThread' = nThr + 1
    /\ mainPc' = "idle"
    /\ UNCHANGED <<armAvail, devVars, cmdCount, mainCmd, mainArg, lockVars,
                   cancel, trkVars, telVars, inCall>>

\* int(v) raises: v is None, or a value that int() rejects
IntRejects(v) == v \in {NoneV, RejectedV, EmptyV}
\* sid = data.get("id") or data.get("sid"): a falsy id (None, 0, an empty
\* string or collection) gives way to sid; any other id is kept, a truthy one
\* that int() rejects included
SidOf(data) == IF data.id \in {NoneV, 0, EmptyV} THEN data.sid ELSE data.id
\* int(sid) succeeds and 1 <= sid <= 6
ValidSid(sid) == ~IntRejects(sid) /\ 1 <= sid /\ sid <= 6
\* int(delta) of a number given in tenths: None when int() raises, and a
\* number is truncated towards zero
IntOfTenths(v10) == IF IntRejects(v10) THEN NoneV ELSE TruncDiv(v10, 10)
\* delta = data.get("delta", 0), in tenths
DeltaOf(data) == GetOr(data.delta10, 0)
\* every list is accepted: the mutant of AnglesValid
AnglesValidAnyLength(a) == a.list
\* isinstance(angles, (list, tuple)) and len(angles) == 6
AnglesValid(a) == a.list /\ Len(a.items) = 6
\* no lower bound on the duration: the mutant of ManualTime
ManualTimeUnclamped(t, default) ==
    IF IntRejects(GetOr(t, default)) THEN NoneV ELSE GetOr(t, default)
\* t = data.get("time_ms", default); max(0, int(time_ms)): None when int()
\* raises
ManualTime(t, default) ==
    IF IntRejects(GetOr(t, default)) THEN NoneV ELSE ClampTime(GetOr(t, default))
\* [int(a) for a in angles] raises on some element
ItemsRejected(items) == \E i \in 1..Len(items) : IntRejects(items[i])
SetJointDefaultMs == 500
NudgeDefaultMs == 300
\* a read that never fails: the mutant of ReadOk
ReadOkAlways(raw) == TRUE
\* the read returned a value that int() accepts
ReadOk(raw) == raw # NoneV
\* the delta taken as the target: the mutant of NudgeTarget
NudgeTargetAbsolute(current, d) == ClampAngle(d)
\* target = max(0, min(180, current + d))
NudgeTarget(current, d) == ClampAngle(current + d)

\* _cmd_set_joint up to the device write of ArmActions.set_joint; an angle
\* or a time_ms that int() rejects passes the handler and raises in set_joint
\* before the lock is taken, and the outcome is error:<the exception>
CmdSetJoint ==
    /\ mainPc = "dispatch"
    /\ mainCmd = <<"set_joint">>
    /\ IF ~ActionsAvail
       THEN /\ out' = Append(out, Ev("result", mainCmd, "error", "arm_unavailable"))
            /\ mainPc' = "idle"
            /\ mainArg' = NoArg
       ELSE IF ~ValidSid(SidOf(mainArg.data))
       THEN /\ out' = Append(out, Ev("result", mainCmd, "error", "invalid_sid"))
            /\ mainPc' = "idle"
            /\ mainArg' = NoArg
       ELSE IF mainArg.data.angle = NoneV
       THEN /\ out' = Append(out, Ev("result", mainCmd, "error", "missing_angle"))
            /\ mainPc' = "idle"
            /\ mainArg' = NoArg
       ELSE IF \/ IntRejects(mainArg.data.angle)
               \/ ManualTime(mainArg.data.t, SetJointDefaultMs) = NoneV
       THEN /\ out' = Append(out, OutcomeEv(mainCmd, "error:int"))
            /\ mainPc' = "idle"
            /\ mainArg' = NoArg
       ELSE /\ mainArg' = [mainArg EXCEPT
                              !.op = "write", !.sid = SidOf(mainArg.data),
                              !.angles = <<ClampAngle(mainArg.data.angle)>>,
                              !.t = ManualTime(mainArg.data.t, SetJointDefaultMs)]
            /\ mainPc' = "mw"
            /\ UNCHANGED out
    /\ UNCHANGED <<armAvail, devVars, cmdCount, mainCmd, lockVars, actVars,
                   trkVars, telVars, inCall>>

\* _cmd_set_joints up to the device write of ArmActions.set_joints; after the
\* test of the length, an element or a time_ms that int() rejects raises
\* before the lock is taken, and the outcome is error:<the exception>
CmdSetJoints ==
    /\ mainPc = "dispatch"
    /\ mainCmd = <<"set_joints">>
    /\ IF ~ActionsAvail
       THEN /\ out' = Append(out, Ev("result", mainCmd, "error", "arm_unavailable"))
            /\ mainPc' = "idle"
            /\ mainArg' = NoArg
       ELSE IF ~AnglesValid(mainArg.data.angles)
       THEN /\ out' = Append(out, OutcomeEv(mainCmd, "error:invalid_angles"))
            /\ mainPc' = "idle"
            /\ mainArg' = NoArg
       ELSE IF \/ ItemsRejected(mainArg.data.angles.items)
               \/ ManualTime(mainArg.data.t, SetJointDefaultMs) = NoneV
       THEN /\ out' = Append(out, OutcomeEv(mainCmd, "error:int"))
            /\ mainPc' = "idle"
            /\ mainArg' = NoArg
       ELSE /\ mainArg' = [mainArg EXCEPT
                              !.op = "write6",
                              !.angles =
                                  [i \in 1..Len(mainArg.data.angles.items) |->
                                      ClampAngle(mainArg.data.angles.items[i])],
                              !.t = ManualTime(mainArg.data.t, SetJointDefaultMs)]
            /\ mainPc' = "mw"
            /\ UNCHANGED out
    /\ UNCHANGED <<armAvail, devVars, cmdCount, mainCmd, lockVars, actVars,
                   trkVars, telVars, inCall>>

\* _cmd_nudge_joint up to the device read of ArmActions.nudge_joint
CmdNudgeJoint ==
    /\ mainPc = "dispatch"
    /\ mainCmd = <<"nudge_joint">>
    /\ IF ~ActionsAvail
       THEN /\ out' = Append(out, Ev("result", mainCmd, "error", "arm_unavailable"))
            /\ mainPc' = "idle"
            /\ mainArg' = NoArg
       ELSE IF ~ValidSid(SidOf(mainArg.data))
       THEN /\ out' = Append(out, Ev("result", mainCmd, "error", "invalid_sid"))
            /\ mainPc' = "idle"
            /\ mainArg' = NoArg
       ELSE IF IntOfTenths(DeltaOf(mainArg.data)) = NoneV
       THEN /\ out' = Append(out, Ev("result", mainCmd, "error", "invalid_delta"))
            /\ mainPc' = "idle"
            /\ mainArg' = NoArg
       ELSE /\ mainArg' = [mainArg EXCEPT
                              !.op = "nudge", !.sid = SidOf(mainArg.data),
                              !.delta = IntOfTenths(DeltaOf(mainArg.data)),
                              !.t = GetOr(mainArg.data.t, NudgeDefaultMs)]
            /\ mainPc' = "nr"
            /\ UNCHANGED out
    /\ UNCHANGED <<armAvail, devVars, cmdCount, mainCmd, lockVars, actVars,
                   trkVars, telVars, inCall>>

\* ArmActions.nudge_joint: Arm_serial_servo_read under the shared lock
NudgeReadBegin ==
    /\ mainPc = "nr"
    /\ armLock = Free
    /\ armLock' = MainId
    /\ inCall' = inCall \cup {Call(MainId, "shared", "read", mainArg.sid, << >>, 0)}
    /\ mainPc' = "nr_c"
    /\ UNCHANGED <<armAvail, devVars, cmdCount, mainCmd, mainArg, out, cmdLock,
                   actVars, trkVars, telVars>>

\* ArmActions.nudge_joint: the read returns raw (None: it failed); after a
\* read that succeeded, a time_ms that int() rejects raises before the lock
\* is taken again, and the outcome is error:<the exception>
NudgeReadEnd(raw) ==
    /\ mainPc = "nr_c"
    /\ armLock' = AfterWith(MainId)
    /\ inCall' = {c \in inCall : c.who # MainId}
    /\ IF ~ReadOk(raw)
       THEN /\ out' = Append(out, OutcomeEv(mainCmd, "error:read_failed"))
            /\ mainPc' = "idle"
            /\ mainArg' = NoArg
       ELSE IF ManualTime(mainArg.t, NudgeDefaultMs) = NoneV
       THEN /\ out' = Append(out, OutcomeEv(mainCmd, "error:int"))
            /\ mainPc' = "idle"
            /\ mainArg' = NoArg
       ELSE /\ mainArg' = [mainArg EXCEPT
                              !.op = "write", !.raw = raw,
                              !.angles = <<NudgeTarget(raw, mainArg.delta)>>,
                              !.t = ManualTime(mainArg.t, NudgeDefaultMs)]
            /\ mainPc' = "mw"
            /\ UNCHANGED out
    /\ UNCHANGED <<armAvail, devVars, cmdCount, mainCmd, cmdLock, actVars,
                   trkVars, telVars>>

\* ArmActions.set_joint / set_joints / nudge_joint: the write under the lock
ManualWriteBegin ==
    /\ mainPc = "mw"
    /\ armLock = Free
    /\ armLock' = MainId
    /\ inCall' = inCall \cup {Call(MainId, "shared", mainArg.op, mainArg.sid,
                                   Half(mainArg.angles), mainArg.t)}
    /\ mainPc' = "mw_c"
    /\ UNCHANGED <<armAvail, devVars, cmdCount, mainCmd, mainArg, out, cmdLock,
                   actVars, trkVars, telVars>>

\* the write returns (or raises: fault) and the handler sends the result
ManualWriteEnd(fault) ==
    /\ mainPc = "mw_c"
    /\ armLock' = AfterWith(MainId)
    /\ inCall' = {c \in inCall : c.who # MainId}
    /\ out' = Append(out, OutcomeEv(mainCmd, IF fault THEN "error:fault" ELSE "ok"))
    /\ mainArg' = NoArg
    /\ mainPc' = "idle"
    /\ UNCHANGED <<armAvail, devVars, cmdCount, mainCmd, cmdLock, actVars,
                   trkVars, telVars>>

\* _on_message: no branch of the dispatch table matched
CmdUnknown ==
    /\ mainPc = "dispatch"
    /\ mainCmd \notin MappedCmds
    /\ out' = Append(out, Ev("error", mainCmd, "", "unknown_command"))
    /\ mainPc' = "idle"
    /\ UNCHANGED <<armAvail, devVars, cmdCount, mainCmd, mainArg, lockVars,
                   actVars, trkVars, telVars, inCall>>

\* ------------------------------------- the other callbacks of the transport
\* _on_open (app.py) and _on_connect (app_mqtt.py): the hello event. The
\* _start_joint_stream of _on_open finds the telemetry thread that
\* __init__ started
OnOpen(max) ==
    /\ mainPc = "idle"
    /\ cmdCount < max
    /\ cmdCount' = cmdCount + 1
    /\ mainCmd' = NoCmd
    /\ mainArg' = NoArg
    /\ out' = <<Ev("hello", NoCmd, "", "")>>
    /\ UNCHANGED <<armAvail, devVars, mainPc, lockVars, actVars, trkVars,
                   telVars, inCall>>

\* _on_error (app.py): the error event with the text of the error
OnError(max) ==
    /\ mainPc = "idle"
    /\ agent = "ws"
    /\ cmdCount < max
    /\ cmdCount' = cmdCount + 1
    /\ mainCmd' = NoCmd
    /\ mainArg' = NoArg
    /\ out' = <<Ev("error", NoCmd, "", "transport")>>
    /\ UNCHANGED <<armAvail, devVars, mainPc, lockVars, actVars, trkVars,
                   telVars, inCall>>

\* the end of _on_close: self.arm = None and self._telemetry_stop.set()
\* (the event exists when the telemetry thread was started)
Closed ==
    /\ armAvail' = FALSE
    /\ telemetryStop' = trackerAvail
    /\ mainPc' = "idle"

\* _on_close (app.py): the bye event and face_tracking.stop() up to its
\* join; without a tracker thread stop() returns at once, and hasClose says
\* whether the device has one of close, shutdown, release, which is then
\* called without the lock
OnClose(max, hasClose) ==
    /\ mainPc = "idle"
    /\ agent = "ws"
    /\ cmdCount < max
    /\ cmdCount' = cmdCount + 1
    /\ mainCmd' = NoCmd
    /\ mainArg' = NoArg
    /\ out' = <<Ev("bye", NoCmd, "", "")>>
    /\ IF trackerAvail /\ ftThread # NoThread
       THEN /\ stopEvent' = TRUE
            /\ mainPc' = "close_join"
            /\ UNCHANGED <<armAvail, telemetryStop, inCall>>
       ELSE IF armAvail /\ hasClose
       THEN /\ inCall' = inCall \cup {Call(MainId, "none", "close", 0, << >>, 0)}
            /\ mainPc' = "close_dev"
            /\ UNCHANGED <<armAvail, telemetryStop, stopEvent>>
       ELSE /\ Closed
            /\ UNCHANGED <<stopEvent, inCall>>
    /\ UNCHANGED <<devVars, lockVars, actVars, ftThread, loops, nLoops, targetX,
                   targetY, telPc, tel, agent>>

\* _on_close: the join of stop(), _thread = None, and on to the device
OnCloseJoin(hasClose) ==
    /\ mainPc = "close_join"
    /\ JoinReturns(LoopAlive(ftThread), LoopBlockedBy(ftThread, MainId))
    /\ ftThread' = NoThread
    /\ IF armAvail /\ hasClose
       THEN /\ inCall' = inCall \cup {Call(MainId, "none", "close", 0, << >>, 0)}
            /\ mainPc' = "close_dev"
            /\ UNCHANGED <<armAvail, telemetryStop>>
       ELSE /\ Closed
            /\ UNCHANGED inCall
    /\ UNCHANGED <<devVars, cmdCount, mainCmd, mainArg, out, lockVars, actVars,
                   stopEvent, loops, nLoops, targetX, targetY, telPc, tel, agent>>

\* _on_close: the close call of the device returns (or raises: swallowed)
OnCloseEnd ==
    /\ mainPc = "close_dev"
    /\ inCall' = {c \in inCall : c.who # MainId}
    /\ Closed
    /\ UNCHANGED <<devVars, cmdCount, mainCmd, mainArg, out, lockVars, actVars,
                   trkVars, telPc, tel, agent>>

\* ------------------------------------------ KeyboardInterrupt out of run()
\* run() after face_tracking.stop(): self._telemetry_stop.set() (the event
\* exists when the telemetry thread was started); app.py then calls the
\* close of the device without the lock and sets self.arm = None,
\* app_mqtt.py leaves the arm alone; run() returns
Interrupted(hasClose) ==
    /\ telemetryStop' = trackerAvail
    /\ IF agent = "ws" /\ armAvail /\ hasClose
       THEN /\ inCall' = inCall \cup {Call(MainId, "none", "close", 0, << >>, 0)}
            /\ mainPc' = "int_dev"
            /\ UNCHANGED armAvail
       ELSE /\ armAvail' = (armAvail /\ agent = "mqtt")
            /\ mainPc' = "ended"
            /\ UNCHANGED inCall

\* run(): KeyboardInterrupt out of run_forever (app.py) or loop_forever
\* (app_mqtt.py), between two callbacks: no event is sent, and
\* face_tracking.stop() runs up to its join
Interrupt(max, hasClose) ==
    /\ mainPc = "idle"
    /\ cmdCount < max
    /\ cmdCount' = cmdCount + 1
    /\ mainCmd' = NoCmd
    /\ mainArg' = NoArg
    /\ out' = << >>
    /\ IF trackerAvail /\ ftThread # NoThread
       THEN /\ stopEvent' = TRUE
            /\ mainPc' = "int_join"
            /\ UNCHANGED <<armAvail, telemetryStop, inCall>>
       ELSE /\ Interrupted(hasClose)
            /\ UNCHANGED stopEvent
    /\ UNCHANGED <<devVars, lockVars, actVars, ftThread, loops, nLoops, targetX,
                   targetY, telPc, tel, agent>>

\* run(): the join of stop(), _thread = None, and on to the telemetry event
\* and the device
InterruptJoin(hasClose) ==
    /\ mainPc = "int_join"
    /\ JoinReturns(LoopAlive(ftThread), LoopBlockedBy(ftThread, MainId))
    /\ ftThread' = NoThread
    /\ Interrupted(hasClose)
    /\ UNCHANGED <<devVars, cmdCount, mainCmd, mainArg, out, lockVars, actVars,
                   stopEvent, loops, nLoops, targetX, targetY, telPc, tel, agent>>

\* run() of app.py: the close call of the device returns (or raises:
\* swallowed), self.arm = None, and run() returns
InterruptEnd ==
    /\ mainPc = "int_dev"
    /\ inCall' = {c \in inCall : c.who # MainId}
    /\ armAvail' = FALSE
    /\ mainPc' = "ended"
    /\ UNCHANGED <<devVars, cmdCount, mainCmd, mainArg, out, lockVars, actVars,
                   trkVars, telVars>>

\* --------------------------------------------------- Action-<cmd> threads
InstrAt(rec) == GestureProg(rec.g, robotId)[rec.ip]
Instr(i) == InstrAt(thr[i])

\* the lock a gesture routine holds around its device write: ArmActions
\* builds ActionHeart / ActionHug without arm_lock, so each routine makes
\* its own threading.Lock(); ActionInitPose takes no lock at all
GestureLock(g) == IF g = "init" THEN "none" ELSE "private"

\* the thread after the instruction at ip: the next one, or the return of
\* "<gesture>_completed" after the last
Advance(rec) ==
    IF rec.ip + 1 > Len(GestureProg(rec.g, robotId))
    THEN [rec EXCEPT !.ph = "ret", !.ip = 0, !.sub = "a", !.n = 0,
                     !.outcome = CompletedOutcome(rec.g)]
    ELSE [rec EXCEPT !.ip = rec.ip + 1, !.sub = "a", !.n = HoldSteps]

\* _write6_reliable: a send (the first, or the resend after the delay) begins;
\* ActionInitPose.run: the direct Arm_serial_servo_write6_array begins
GestureWriteBegin(i) ==
    /\ thr[i].st = "alive"
    /\ thr[i].ph = "run"
    /\ Instr(i).op \in {"W", "D"}
    /\ thr[i].sub \in {"a", "c"}
    /\ inCall' = inCall \cup {Call(i, GestureLock(thr[i].g), "write6", 0,
                                   Half(Instr(i).pose), Instr(i).ms)}
    /\ thr' = [thr EXCEPT ![i].sub = IF thr[i].sub = "a" THEN "b" ELSE "d"]
    /\ UNCHANGED <<armAvail, devVars, mainVars, lockVars, actionThread,
                   actionCancel, currentCmd, cancel, nThr, trkVars, telVars>>

\* a fault of the device ends the routine: the mutant of AfterSend
AfterSendFaultFatal(rec, fault) ==
    IF fault
    THEN [rec EXCEPT !.ph = "ret", !.outcome = "error"]
    ELSE IF InstrAt(rec).op = "W" /\ rec.sub = "b"
    THEN [rec EXCEPT !.sub = "c"]
    ELSE Advance(rec)
\* the thread after a send has returned or raised. _write6_reliable swallows
\* the fault of either send: after the first send comes the resend, after
\* the resend the next instruction. ActionInitPose.run has its one write
\* inside the try of run: a fault returns "init_completed" at once, without
\* the holds (ip stays at the write that raised)
AfterSend(rec, fault) ==
    IF InstrAt(rec).op = "W" /\ rec.sub = "b"
    THEN [rec EXCEPT !.sub = "c"]
    ELSE IF InstrAt(rec).op = "D" /\ fault
    THEN [rec EXCEPT !.ph = "ret", !.sub = "a", !.n = 0,
                     !.outcome = CompletedOutcome(rec.g)]
    ELSE Advance(rec)

\* the send returns, or raises the device's fault
GestureWriteEnd(i, fault) ==
    /\ thr[i].st = "alive"
    /\ thr[i].ph = "run"
    /\ thr[i].sub \in {"b", "d"}
    /\ inCall' = {c \in inCall : c.who # i}
    /\ thr' = [thr EXCEPT ![i] = AfterSend(thr[i], fault)]
    /\ UNCHANGED <<armAvail, devVars, mainVars, lockVars, actionThread,
                   actionCancel, currentCmd, cancel, nThr, trkVars, telVars>>

\* _sleep_interruptible: one pass of the loop up to time.sleep: the flag is
\* polled, and a set flag returns "<gesture>_cancelled"
HoldPoll(i) ==
    /\ thr[i].st = "alive"
    /\ thr[i].ph = "run"
    /\ Instr(i).op = "H"
    /\ thr[i].sub = "a"
    /\ thr' = [thr EXCEPT ![i] =
                 IF cancel[i]
                 THEN [thr[i] EXCEPT !.ph = "ret", !.ip = 0, !.sub = "a", !.n = 0,
                                     !.outcome = CancelledOutcome(thr[i].g)]
                 ELSE [thr[i] EXCEPT !.sub = "s"]]
    /\ UNCHANGED <<armAvail, devVars, mainVars, lockVars, actionThread,
                   actionCancel, currentCmd, cancel, nThr, trkVars, telVars, inCall>>

\* _sleep_interruptible: time.sleep(step) is over; the loop goes on while
\* time.time() < end, and returns True (without a poll) when the time is up
HoldSleep(i) ==
    /\ thr[i].st = "alive"
    /\ thr[i].ph = "run"
    /\ Instr(i).op = "H"
    /\ thr[i].sub = "s"
    /\ thr' = [thr EXCEPT ![i] =
                 IF thr[i].n > 1
                 THEN [thr[i] EXCEPT !.sub = "a", !.n = thr[i].n - 1]
                 ELSE Advance(thr[i])]
    /\ UNCHANGED <<armAvail, devVars, mainVars, lockVars, actionThread,
                   actionCancel, currentCmd, cancel, nThr, trkVars, telVars, inCall>>

\* the status of the result event, from the flag at the time of the test
ResultStatus(isSet) == IF isSet THEN "cancelled" ELSE "completed"

\* _runner: status from cancel_event.is_set(), and the result event; the
\* finally begins with a _led_set
ThreadResult(i) ==
    /\ thr[i].st = "alive"
    /\ thr[i].ph = "ret"
    /\ thr' = [thr EXCEPT ![i].status = ResultStatus(cancel[i]),
                          ![i].ph = LedThen("led_fin", "fin_lock"),
                          ![i].ip = 0]
    /\ UNCHANGED <<armAvail, devVars, mainVars, lockVars, actionThread,
                   actionCancel, currentCmd, cancel, nThr, trkVars, telVars, inCall>>

\* the colour of the _led_set of an Action thread (green before the routine,
\* blue in the finally) and the position that follows it
ThreadLedColour(ph) == IF ph = "led_run_w" THEN Green ELSE Blue
AfterThreadLed(ph) ==
    IF ph \in {"led_run", "led_run_w", "led_run_c"} THEN "run" ELSE "fin_lock"

\* _led_set of an Action thread: the test of self.arm; with an arm the
\* thread goes on to `with self._arm_io_lock`, without one nothing is done
ThreadLedTest(i) ==
    /\ thr[i].st = "alive"
    /\ thr[i].ph \in {"led_run", "led_fin"}
    /\ thr' = [thr EXCEPT ![i].ph =
                 IF ~armAvail THEN AfterThreadLed(thr[i].ph)
                 ELSE IF thr[i].ph = "led_run" THEN "led_run_w" ELSE "led_fin_w"]
    /\ UNCHANGED <<armAvail, devVars, mainVars, lockVars, actionThread,
                   actionCancel, currentCmd, cancel, nThr, trkVars, telVars, inCall>>

\* _led_set of an Action thread: the lock is acquired and Arm_RGB_set
\* begins; when self.arm has become None since the test, the call raises at
\* once inside the `with` and no device call is made
ThreadLedBegin(i) ==
    /\ thr[i].st = "alive"
    /\ thr[i].ph \in {"led_run_w", "led_fin_w"}
    /\ armLock = Free
    /\ armLock' = i
    /\ inCall' = IF armAvail
                 THEN inCall \cup {LedCall(i, ThreadLedColour(thr[i].ph))}
                 ELSE inCall
    /\ thr' = [thr EXCEPT ![i].ph = IF thr[i].ph = "led_run_w"
                                     THEN "led_run_c" ELSE "led_fin_c"]
    /\ UNCHANGED <<armAvail, devVars, mainVars, cmdLock, actionThread,
                   actionCancel, currentCmd, cancel, nThr, trkVars, telVars>>

\* _led_set of an Action thread: Arm_RGB_set returns (or raises, which is
\* swallowed) and the lock is released
ThreadLedEnd(i) ==
    /\ thr[i].st = "alive"
    /\ thr[i].ph \in {"led_run_c", "led_fin_c"}
    /\ armLock' = AfterWith(i)
    /\ inCall' = {c \in inCall : c.who # i}
    /\ thr' = [thr EXCEPT ![i].ph = AfterThreadLed(thr[i].ph)]
    /\ UNCHANGED <<armAvail, devVars, mainVars, cmdLock, actionThread,
                   actionCancel, currentCmd, cancel, nThr, trkVars, telVars>>

\* _runner: finally, with self._cmd_lock: clear the three references
ThreadCleanup(i) ==
    /\ thr[i].st = "alive"
    /\ thr[i].ph = "fin_lock"
    /\ cmdLock = Free
    /\ actionThread' = NoThread
    /\ actionCancel' = NoThread
    /\ currentCmd' = NoCmd
    /\ thr' = [thr EXCEPT ![i] = DeadThread]
    /\ UNCHANGED <<armAvail, devVars, mainVars, lockVars, cancel, nThr, trkVars,
                   telVars, inCall>>

\* ------------------------------------------------- FaceTrackingThread loops
DeadXLo == 260
DeadXHi == 380
DeadYLo == 180
DeadYHi == 300
CenterX == 320
CenterY == 240

\* PositionalPID is not among the sources: its SystemOutput after
\* SetInertiaTime is any of these values
PidOutputs == {-1200, 3200}
CorePidOutputs == {3200}
\* detections: no face, or the centroid (cx, cy) of the largest face
CoreFaceInputs ==
    {[face |-> FALSE, cx |-> 0, cy |-> 0],
     [face |-> TRUE, cx |-> 500, cy |-> 400]}
FaceInputs ==
    CoreFaceInputs \cup
    {[face |-> TRUE, cx |-> 100, cy |-> 240],
     [face |-> TRUE, cx |-> 320, cy |-> 100]}

\* the detections of SpecTracker: centroids on, inside and just outside the
\* edges of the deadzone bands
TrackFaceInputs ==
    FaceInputs \cup
    {[face |-> TRUE, cx |-> 260, cy |-> 300],
     [face |-> TRUE, cx |-> 380, cy |-> 180],
     [face |-> TRUE, cx |-> 259, cy |-> 301]}

\* the axis in hand of a loop is the pan ("x") or the tilt ("y"): its target,
\* the centroid and centre that go with it, and the limit of its clamp
AxisTarget(a) == IF a = "x" THEN targetX ELSE targetY
Centroid(rec) == IF rec.ax = "x" THEN rec.cx ELSE rec.cy
Center(a) == IF a = "x" THEN CenterX ELSE CenterY
UpperLimit(a) == IF a = "x" THEN AngleMax ELSE TiltMax
\* the two halves of the test before "Update X" and "Update Y", each with its
\* own read of the target: (target >= 180 and c <= centre), then
\* (target <= 0 and c >= centre); the tilt too is tested against 180
AtDeadEnd(ph, t, c, ctr) ==
    IF ph = "t1" THEN t >= AngleMax /\ c <= ctr ELSE t <= AngleMin /\ c >= ctr
\* a loop without deadzone bands: the mutant of InDeadzone
InDeadzoneNever(a, c) == FALSE
\* dead_x[0] <= cx <= dead_x[1], dead_y[0] <= cy <= dead_y[1]
InDeadzone(a, c) ==
    IF a = "x" THEN DeadXLo <= c /\ c <= DeadXHi ELSE DeadYLo <= c /\ c <= DeadYHi
\* int((int(1500 + SystemOutput) - 500) / 10), minus 45 for the tilt
TiltOffset == 45
RawTarget(a, pidOut) ==
    TruncDiv((1500 + pidOut) - 500, 10) - (IF a = "x" THEN 0 ELSE TiltOffset)
\* the assignment to _target_servox or _target_servoy
SetTarget(a, v) ==
    IF a = "x" THEN targetX' = v /\ targetY' = targetY
    ELSE targetY' = v /\ targetX' = targetX
\* the loop is done with an axis: the tilt follows the pan, the joints
\* follow the tilt
NextAxis(rec) ==
    IF rec.ax = "x" THEN [rec EXCEPT !.ax = "y", !.ph = "t1", !.cx = 0]
    ELSE [rec EXCEPT !.ax = "-", !.ph = "jx", !.cy = 0]


Abs(v) == IF v < 0 THEN -v ELSE v

\* should_send of the tracker: no previous write, or a change of 1 degree
TrackerShouldSend(lastx, lasty, sx, sy) ==
    \/ lastx = NoneV
    \/ lasty = NoneV
    \/ Abs(sx - lastx) >= 1
    \/ Abs(sy - lasty) >= 1

\* a loop that goes on without a camera: the mutant of AfterOpen
AfterOpenIgnoringFailure(rec, opened) == [rec EXCEPT !.ph = "top"]
\* _run: if not cap.isOpened(): the error event, and return to the finally
AfterOpen(rec, opened) ==
    IF opened THEN [rec EXCEPT !.ph = "top"]
    ELSE [rec EXCEPT !.ph = "release", !.sent = <<"camera_open_failed">>]

\* _run: cv.VideoCapture and the test of cap.isOpened()
TrackerOpen(j, opened) ==
    /\ loops[j].st = "alive"
    /\ loops[j].ph = "open"
    /\ loops' = [loops EXCEPT ![j] = AfterOpen(loops[j], opened)]
    /\ UNCHANGED <<armAvail, devVars, mainVars, lockVars, actVars, ftThread,
                   stopEvent, nLoops, targetX, targetY, telVars, inCall>>

\* _run: finally: cap.release(), and the thread ends
TrackerExit(j) ==
    /\ loops[j].st = "alive"
    /\ loops[j].ph = "release"
    /\ loops' = [loops EXCEPT ![j] = DeadLoop]
    /\ UNCHANGED <<armAvail, devVars, mainVars, lockVars, actVars, ftThread,
                   stopEvent, nLoops, targetX, targetY, telVars, inCall>>

\* _run: while not self._stop_event.is_set(); a set event leaves the loop for
\* the finally and the end of the thread
TrackerTop(j) ==
    /\ loops[j].st = "alive"
    /\ loops[j].ph = "top"
    /\ loops' = [loops EXCEPT ![j] =
                   IF stopEvent THEN DeadLoop
                   ELSE [loops[j] EXCEPT !.ph = "read"]]
    /\ UNCHANGED <<armAvail, devVars, mainVars, lockVars, actVars, ftThread,
                   stopEvent, nLoops, targetX, targetY, telVars, inCall>>

\* _run: cap.read() gives no frame: sleep and continue, nothing is emitted
TrackerNoFrame(j) ==
    /\ loops[j].st = "alive"
    /\ loops[j].ph = "read"
    /\ loops' = [loops EXCEPT ![j].ph = "top"]
    /\ UNCHANGED <<armAvail, devVars, mainVars, lockVars, actVars, ftThread,
                   stopEvent, nLoops, targetX, targetY, telVars, inCall>>

\* _run: cap.read() returns a frame and the detection gives f. Without a
\* face the iteration ends (with the "running" status event when one is
\* due); with a face the loop goes to "Update X". From here on a step of the
\* loop holds one access to _target_servox or _target_servoy, which the
\* loops share without a lock
TrackerFrame(j, f) ==
    /\ loops[j].st = "alive"
    /\ loops[j].ph = "read"
    /\ loops' = [loops EXCEPT ![j] =
                   IF ~f.face THEN [loops[j] EXCEPT !.ph = "top"]
                   ELSE [loops[j] EXCEPT !.cx = f.cx, !.cy = f.cy,
                            !.ax = "x", !.ph = "t1"]]
    /\ UNCHANGED <<armAvail, devVars, mainVars, lockVars, actVars, ftThread,
                   stopEvent, nLoops, targetX, targetY, telVars, inCall>>

\* _run: one half of the dead-end test reads the target; the second half is
\* followed by the deadzone test, and then by the PID
TrackerDeadEndTest(j) ==
    /\ loops[j].st = "alive"
    /\ loops[j].ph \in {"t1", "t2"}
    /\ LET rec == loops[j]
           a == rec.ax
       IN loops' = [loops EXCEPT ![j] =
                      IF AtDeadEnd(rec.ph, AxisTarget(a), Centroid(rec), Center(a))
                      THEN NextAxis(rec)
                      ELSE IF rec.ph = "t1" THEN [rec EXCEPT !.ph = "t2"]
                      ELSE IF InDeadzone(a, Centroid(rec)) THEN NextAxis(rec)
                      ELSE [rec EXCEPT !.ph = "set"]]
    /\ UNCHANGED <<armAvail, devVars, mainVars, lockVars, actVars, ftThread,
                   stopEvent, nLoops, targetX, targetY, telVars, inCall>>

\* _run: self._target_servox = int((target_valuex - 500) / 10), and
\* self._target_servoy = int((target_valuey - 500) / 10) - 45, from the
\* output of the PID
TrackerSet(j, pidOut) ==
    /\ loops[j].st = "alive"
    /\ loops[j].ph = "set"
    /\ SetTarget(loops[j].ax, RawTarget(loops[j].ax, pidOut))
    /\ loops' = [loops EXCEPT ![j].ph = "hi"]
    /\ UNCHANGED <<armAvail, devVars, mainVars, lockVars, actVars, ftThread,
                   stopEvent, nLoops, telVars, inCall>>

\* _run: if target > limit, and then if target < 0: the read of the target
TrackerClampTest(j) ==
    /\ loops[j].st = "alive"
    /\ loops[j].ph \in {"hi", "lo"}
    /\ LET rec == loops[j]
           t == AxisTarget(rec.ax)
       IN loops' = [loops EXCEPT ![j] =
                      IF rec.ph = "hi"
                      THEN [rec EXCEPT !.ph = IF t > UpperLimit(rec.ax)
                                              THEN "hi_set" ELSE "lo"]
                      ELSE IF t < 0 THEN [rec EXCEPT !.ph = "lo_set"]
                      ELSE NextAxis(rec)]
    /\ UNCHANGED <<armAvail, devVars, mainVars, lockVars, actVars, ftThread,
                   stopEvent, nLoops, targetX, targetY, telVars, inCall>>

\* _run: target = limit, and target = 0
TrackerClampSet(j) ==
    /\ loops[j].st = "alive"
    /\ loops[j].ph \in {"hi_set", "lo_set"}
    /\ SetTarget(loops[j].ax,
                 IF loops[j].ph = "hi_set" THEN UpperLimit(loops[j].ax) ELSE 0)
    /\ loops' = [loops EXCEPT ![j] =
                   IF loops[j].ph = "hi_set" THEN [loops[j] EXCEPT !.ph = "lo"]
                   ELSE NextAxis(loops[j])]
    /\ UNCHANGED <<armAvail, devVars, mainVars, lockVars, actVars, ftThread,
                   stopEvent, nLoops, telVars, inCall>>

\* _run: joints = [...]: the first element reads _target_servox, the third
\* reads _target_servoy
TrackerJoints(j) ==
    /\ loops[j].st = "alive"
    /\ loops[j].ph \in {"jx", "jy"}
    /\ loops' = [loops EXCEPT ![j] =
                   IF loops[j].ph = "jx"
                   THEN [loops[j] EXCEPT !.ph = "jy", !.joints2 = <<2 * targetX, 270>>]
                   ELSE [loops[j] EXCEPT !.ph = "dec",
                            !.joints2 = Append(loops[j].joints2, targetY)]]
    /\ UNCHANGED <<armAvail, devVars, mainVars, lockVars, actVars, ftThread,
                   stopEvent, nLoops, targetX, targetY, telVars, inCall>>

\* sx = int(joints[0]), in degrees
SentPan(joints2) == TruncDiv(joints2[1], 2)
\* sy = int(joints[2]) * 2, in half degrees
SentTilt(joints2) == 2 * TruncDiv(joints2[3], 2)

\* _run: the fourth element of joints reads _target_servoy again, and the
\* write is decided; rateOk: 150 ms have passed since the last write. The
\* iteration that does not write ends here
TrackerDecide(j, rateOk) ==
    /\ loops[j].st = "alive"
    /\ loops[j].ph = "dec"
    /\ LET joints2 == loops[j].joints2 \o <<targetY, 180, 60>>
           sx == SentPan(joints2)
           sy == SentTilt(joints2)
           send == /\ TrackerShouldSend(loops[j].lastx, loops[j].lasty, sx, sy)
                   /\ (rateOk \/ loops[j].lastx = NoneV)
       IN loops' = [loops EXCEPT ![j] =
                      IF send
                      THEN [loops[j] EXCEPT !.ph = "w", !.lastx = sx, !.lasty = sy,
                               !.joints2 = joints2]
                      ELSE [loops[j] EXCEPT !.ph = "top", !.joints2 = << >>]]
    /\ UNCHANGED <<armAvail, devVars, mainVars, lockVars, actVars, ftThread,
                   stopEvent, nLoops, targetX, targetY, telVars, inCall>>

\* _run: Arm_serial_servo_write6_array(joints, 500) under the injected lock
TrackerWriteBegin(j) ==
    /\ loops[j].st = "alive"
    /\ loops[j].ph = "w"
    /\ armLock = Free
    /\ armLock' = LoopId(j)
    /\ inCall' = inCall \cup {Call(LoopId(j), "shared", "write6", 0,
                                   loops[j].joints2, TrackerMoveMs)}
    /\ loops' = [loops EXCEPT ![j].ph = "w_c"]
    /\ UNCHANGED <<armAvail, devVars, mainVars, cmdLock, actVars, ftThread,
                   stopEvent, nLoops, targetX, targetY, telVars>>

TrackerWriteEnd(j) ==
    /\ loops[j].st = "alive"
    /\ loops[j].ph = "w_c"
    /\ armLock' = AfterWith(LoopId(j))
    /\ inCall' = {c \in inCall : c.who # LoopId(j)}
    /\ loops' = [loops EXCEPT ![j].ph = "top", ![j].joints2 = << >>]
    /\ UNCHANGED <<armAvail, devVars, mainVars, cmdLock, actVars, ftThread,
                   stopEvent, nLoops, targetX, targetY, telVars>>

\* --------------------------------------------------- JointTelemetry thread
\* the snapshots that a full read of the six joints can return
Snapshots ==
    { <<90, 90, 90, 90, 90, 90>>, <<90, 91, 90, 90, 90, 90>>,
      <<90, NoneV, 90, 90, 90, 90>> }
CoreSnapshots == { <<90, 90, 90, 90, 90, 90>> }
MinDelta == 1

\* app_mqtt.py: some axis changed by min_delta or more; None against a value
\* is a change
ChangedMinDelta(new, old) ==
    \E k \in 1..6 :
        IF new[k] = NoneV \/ old[k] = NoneV THEN new[k] # old[k]
        ELSE Abs(new[k] - old[k]) >= MinDelta
\* every sample is sent: the mutant of ShouldSend
ShouldSendAlways(ag, firstSent, angles, last, force) == TRUE
\* should_send of the two programs: app.py compares angles != last
ShouldSend(ag, firstSent, angles, last, force) ==
    IF ~firstSent THEN TRUE
    ELSE IF ag = "mqtt" THEN ChangedMinDelta(angles, last) \/ force
    ELSE angles # last \/ force
\* the payload of joint_state: only app_mqtt.py puts a seq in it
Payload(ag, angles, seq) ==
    [angles |-> angles, seq |-> IF ag = "mqtt" THEN seq ELSE NoneV]
\* the end of an iteration whose read gave angles (a list): send or not
TelDecide(t, ag, angles) ==
    IF ShouldSend(ag, t.firstSent, angles, t.last, t.force)
    THEN [t EXCEPT !.angles = angles, !.ev = Payload(ag, angles, t.seq),
                   !.seq = IF ag = "mqtt" THEN t.seq + 1 ELSE t.seq,
                   !.sent = t.sent + 1, !.last = angles, !.due = FALSE,
                   !.firstSent = TRUE]
    ELSE [t EXCEPT !.angles = angles]
\* need_force / force: app.py forces the first read, app_mqtt.py does not ask
NeedForce(ag, firstSent, elapsed) ==
    IF ag = "mqtt" THEN elapsed ELSE (~firstSent) \/ elapsed

\* the values that the read of axis k can return
AxisValues(snaps, k) == {snap[k] : snap \in snaps}
\* the best-effort read of app.py: one non-blocking acquire for each axis
AxisRead == agent = "ws" /\ telPc = "acq_try"
\* the best-effort read after the attempt on one axis gave v: the next axis,
\* or with the sixth the end of the iteration (fallback is of one iteration)
AfterAxis(t, ag, v) ==
    IF Len(t.angles) = 5
    THEN [TelDecide(t, ag, Append(t.angles, v)) EXCEPT !.fallback = FALSE]
    ELSE [t EXCEPT !.angles = Append(t.angles, v)]
AfterAxisPc(t) == IF Len(t.angles) = 5 THEN "idle" ELSE "acq_try"
\* app.py: the first _read_angles of the iteration returned None, and the
\* one fallback read, `angles = _read_angles(full_block=False)`, begins
Fallback(t) == [t EXCEPT !.angles = << >>, !.fallback = TRUE]

\* the top of an iteration: while not self._telemetry_stop.is_set(), with the
\* thread ending on a set event; now_t is taken; passed: the force interval
\* has run out since the previous iteration
TelemetryTop(passed, maxEmits) ==
    /\ trackerAvail
    /\ telPc = "idle"
    /\ IF telemetryStop
       THEN /\ telPc' = "done"
            /\ UNCHANGED tel
       ELSE /\ armAvail
            /\ tel.sent < maxEmits
            /\ tel' = [tel EXCEPT !.due = tel.due \/ passed,
                                  !.force = tel.due \/ passed, !.angles = << >>,
                                  !.fallback = FALSE]
            /\ telPc' = IF NeedForce(agent, tel.firstSent, tel.due \/ passed)
                        THEN "acq_forced" ELSE "acq_try"
    /\ UNCHANGED <<armAvail, devVars, mainVars, lockVars, actVars, trkVars,
                   agent, telemetryStop, inCall>>

\* _read_angles: the shared lock is acquired and the servo reads begin: the
\* six reads of a forced read (and of either read of app_mqtt.py) under one
\* hold of the lock, or the read of one axis of the best-effort read of
\* app.py. With self.arm None by now the read raises at once, with the lock
\* held and no device call made
TelemetryReadBegin ==
    /\ telPc \in {"acq_forced", "acq_try"}
    /\ armLock = Free
    /\ armLock' = TelId
    /\ inCall' = IF armAvail
                 THEN inCall \cup
                         {Call(TelId, "shared", "read",
                               IF AxisRead THEN Len(tel.angles) + 1 ELSE 0,
                               << >>, 0)}
                 ELSE inCall
    /\ telPc' = IF AxisRead THEN "axis" ELSE "reading"
    /\ UNCHANGED <<armAvail, devVars, mainVars, cmdLock, actVars, trkVars,
                   tel, agent, telemetryStop>>

\* _read_angles: the lock is held by another thread for the 0.2 s of the
\* forced acquire, or at the moment of a non-blocking one. app_mqtt.py gives
\* up the iteration; app.py falls back from the forced read to the
\* best-effort read, and in the best-effort read this axis is None
TelemetryLockBusy ==
    /\ telPc \in {"acq_forced", "acq_try"}
    /\ armLock # Free
    /\ IF agent = "mqtt"
       THEN /\ telPc' = "idle"
            /\ UNCHANGED tel
       ELSE IF telPc = "acq_forced"
       THEN /\ telPc' = "acq_try"
            /\ tel' = Fallback(tel)
       ELSE /\ telPc' = AfterAxisPc(tel)
            /\ tel' = AfterAxis(tel, agent, NoneV)
    /\ UNCHANGED <<armAvail, devVars, mainVars, lockVars, actVars, trkVars,
                   agent, telemetryStop, inCall>>

\* a servo read of the telemetry thread is in progress
TelCalling == \E c \in inCall : c.who = TelId
\* the position after a read under one hold that raised (a device fault, a
\* value that int() rejects, self.arm None): _read_angles returns None;
\* app.py falls back to the best-effort read, app_mqtt.py gives up the
\* iteration
AfterRaisedRead(ag) == IF ag = "ws" THEN "acq_try" ELSE "idle"

\* the six reads under one hold return snap, or one of them raises; the lock
\* is released, and with snap the loop sends or not
TelemetryReadEnd(snap) ==
    /\ telPc = "reading"
    /\ armLock' = AfterWith(TelId)
    /\ inCall' = {c \in inCall : c.who # TelId}
    /\ \E raised \in {r \in BOOLEAN : r \/ TelCalling} :
          IF raised
          THEN /\ telPc' = AfterRaisedRead(agent)
               /\ tel' = IF agent = "ws" THEN Fallback(tel) ELSE tel
          ELSE /\ telPc' = "idle"
               /\ tel' = TelDecide(tel, agent, snap)
    /\ UNCHANGED <<armAvail, devVars, mainVars, cmdLock, actVars, trkVars, agent,
                   telemetryStop>>

\* the read of one axis of the best-effort read returns v (None: it raised,
\* or gave no value) and the lock is released; after the 1 ms sleep the next
\* axis is tried. A value that int() rejects (RejectedV) makes _read_angles
\* return None: when that was the first read of the iteration the fallback
\* read begins, and when it was the fallback read the iteration ends with
\* nothing sent
TelemetryAxisEnd(v, snaps) ==
    /\ telPc = "axis"
    /\ v \in IF TelCalling
              THEN AxisValues(snaps, Len(tel.angles) + 1) \cup {NoneV, RejectedV}
              ELSE {NoneV}
    /\ armLock' = AfterWith(TelId)
    /\ inCall' = {c \in inCall : c.who # TelId}
    /\ telPc' = IF v # RejectedV THEN AfterAxisPc(tel)
                ELSE IF tel.fallback THEN "idle" ELSE "acq_try"
    /\ tel' = IF v # RejectedV THEN AfterAxis(tel, agent, v)
              ELSE IF tel.fallback
              THEN [tel EXCEPT !.angles = << >>, !.fallback = FALSE]
              ELSE Fallback(tel)
    /\ UNCHANGED <<armAvail, devVars, mainVars, cmdLock, actVars, trkVars, agent,
                   telemetryStop>>

\* ------------------------------------------------------------ specification
MainStep ==
    \/ MainLedBegin
    \/ MainLedEnd
    \/ PreLock
    \/ PreTrack
    \/ PreTrackJoin
    \/ PreAction
    \/ PreActionJoin
    \/ CmdStartFaceTracking
    \/ CmdStopFaceTracking
    \/ CmdStopJoin
    \/ CmdGesture
    \/ StartAction
    \/ CmdSetJoint
    \/ CmdSetJoints
    \/ CmdNudgeJoint
    \/ NudgeReadBegin
    \/ \E raw \in ReadValues : NudgeReadEnd(raw)
    \/ ManualWriteBegin
    \/ \E fault \in BOOLEAN : ManualWriteEnd(fault)
    \/ CmdUnknown

CallbackStep(max) ==
    \/ OnOpen(max)
    \/ OnError(max)
    \/ \E hasClose \in BOOLEAN : OnClose(max, hasClose)
    \/ \E hasClose \in BOOLEAN : OnCloseJoin(hasClose)
    \/ OnCloseEnd

RunInterrupt(max) ==
    \/ \E hasClose \in BOOLEAN : Interrupt(max, hasClose)
    \/ \E hasClose \in BOOLEAN : InterruptJoin(hasClose)
    \/ InterruptEnd

ThreadStep(i) ==
    \/ ThreadLedTest(i)
    \/ ThreadLedBegin(i)
    \/ ThreadLedEnd(i)
    \/ GestureWriteBegin(i)
    \/ \E fault \in BOOLEAN : GestureWriteEnd(i, fault)
    \/ HoldPoll(i)
    \/ HoldSleep(i)
    \/ ThreadResult(i)
    \/ ThreadCleanup(i)

\* a loop whose camera shows no face
NoFace == [face |-> FALSE, cx |-> 0, cy |-> 0]
LoopWatch(j) ==
    \/ \E opened \in BOOLEAN : TrackerOpen(j, opened)
    \/ TrackerExit(j)
    \/ TrackerTop(j)
    \/ TrackerNoFrame(j)
    \/ TrackerFrame(j, NoFace)

\* a loop whose camera shows no face or a face at the centre of the image,
\* inside both deadzone bands: the targets stay where they are, and the
\* loop writes their pose
CentredFaceInputs == {NoFace, [face |-> TRUE, cx |-> CenterX, cy |-> CenterY]}
LoopCentred(j) ==
    \/ \E opened \in BOOLEAN : TrackerOpen(j, opened)
    \/ TrackerExit(j)
    \/ TrackerTop(j)
    \/ TrackerNoFrame(j)
    \/ \E f \in CentredFaceInputs : TrackerFrame(j, f)
    \/ TrackerDeadEndTest(j)
    \/ TrackerJoints(j)
    \/ \E rateOk \in BOOLEAN : TrackerDecide(j, rateOk)
    \/ TrackerWriteBegin(j)
    \/ TrackerWriteEnd(j)

\* a loop with the detections `faces` and the PID outputs `outs`
LoopStep(j, faces, outs) ==
    \/ \E opened \in BOOLEAN : TrackerOpen(j, opened)
    \/ TrackerExit(j)
    \/ TrackerTop(j)
    \/ TrackerNoFrame(j)
    \/ \E f \in faces : TrackerFrame(j, f)
    \/ TrackerDeadEndTest(j)
    \/ \E pidOut \in outs : TrackerSet(j, pidOut)
    \/ TrackerClampTest(j)
    \/ TrackerClampSet(j)
    \/ TrackerJoints(j)
    \/ \E rateOk \in BOOLEAN : TrackerDecide(j, rateOk)
    \/ TrackerWriteBegin(j)
    \/ TrackerWriteEnd(j)

TelemetryStep(snaps, maxEmits) ==
    \/ \E passed \in BOOLEAN : TelemetryTop(passed, maxEmits)
    \/ TelemetryReadBegin
    \/ TelemetryLockBusy
    \/ \E snap \in snaps : TelemetryReadEnd(snap)
    \/ \E v \in {NoneV, RejectedV} \cup UNION {AxisValues(snaps, k) : k \in 1..6} :
          TelemetryAxisEnd(v, snaps)

\* the agent with init_pose as its one gesture and a tracker whose camera
\* shows no face, without the telemetry thread and the callbacks other than
\* _on_message
Init == InitOf({"robot_left"}, {"ws"}, {TRUE})
Next ==
    \/ \E env \in CoreEnvelopes : Receive(env, MaxCmds)
    \/ MainStep
    \/ \E i \in ThreadIds : ThreadStep(i)
    \/ \E j \in ThreadIds : LoopWatch(j)
Spec == Init /\ [][Next]_vars

\* every thread that can run does run
FairSpec ==
    /\ Spec
    /\ WF_vars(MainStep)
    /\ \A i \in ThreadIds : WF_vars(ThreadStep(i))
    /\ \A j \in ThreadIds : WF_vars(LoopWatch(j))

\* the agent with the other callbacks of its transport and the telemetry
\* thread
MaxCoreEmits == 1
NextFull ==
    \/ \E env \in CoreEnvelopes : Receive(env, MaxFullCmds)
    \/ CallbackStep(MaxFullCmds)
    \/ RunInterrupt(MaxFullCmds)
    \/ MainStep
    \/ \E i \in ThreadIds : ThreadStep(i)
    \/ \E j \in ThreadIds : LoopWatch(j)
    \/ TelemetryStep(CoreSnapshots, MaxCoreEmits)
SpecFull == Init /\ [][NextFull]_vars

\* the agent of either robot with every gesture
InitFull == InitOf(RobotIds, {"ws"}, {TRUE})

\* the agent with every gesture, handling its first envelopes: the joins of
\* stop() and _preempt_current find no thread to wait for
NextPoses ==
    \/ \E env \in PoseEnvelopes : Receive(env, MaxPoseCmds)
    \/ MainLedBegin
    \/ MainLedEnd
    \/ PreLock
    \/ PreTrack
    \/ PreAction
    \/ CmdStartFaceTracking
    \/ CmdStopFaceTracking
    \/ CmdGesture
    \/ StartAction
    \/ CmdSetJoint
    \/ CmdSetJoints
    \/ CmdNudgeJoint
    \/ NudgeReadBegin
    \/ \E raw \in ReadValues : NudgeReadEnd(raw)
    \/ ManualWriteBegin
    \/ \E fault \in BOOLEAN : ManualWriteEnd(fault)
    \/ CmdUnknown
    \/ \E i \in ThreadIds : ThreadStep(i)
    \/ \E j \in ThreadIds : LoopWatch(j)
SpecPoses == InitFull /\ [][NextPoses]_vars

\* the agent with an arm, receiving hug and init_pose commands only
InitGestures == InitOf(RobotIds, {"ws"}, {TRUE}) /\ armAvail
NextGestures ==
    \/ \E env \in GestureEnvelopes : Receive(env, MaxGestureCmds)
    \/ MainLedBegin
    \/ MainLedEnd
    \/ PreLock
    \/ PreTrack
    \/ PreAction
    \/ PreActionJoin
    \/ CmdGesture
    \/ StartAction
    \/ \E i \in ThreadIds : ThreadStep(i)
SpecGestures == InitGestures /\ [][NextGestures]_vars

\* the agent of a left, a right and an unnamed robot, receiving make_heart and
\* hug commands
MaxOrientCmds == 2
OrientRobotIds == RobotIds \cup {"none"}
OrientEnvelopes ==
    {[kind |-> "command", hasCmd |-> TRUE, command |-> c, data |-> NoData] :
        c \in {<<"make_heart">>, <<"hug">>}}
InitOrient == InitOf(OrientRobotIds, {"ws"}, {TRUE}) /\ armAvail
NextOrient ==
    \/ \E env \in OrientEnvelopes : Receive(env, MaxOrientCmds)
    \/ MainLedBegin
    \/ MainLedEnd
    \/ PreLock
    \/ PreTrack
    \/ PreAction
    \/ PreActionJoin
    \/ CmdGesture
    \/ StartAction
    \/ \E i \in ThreadIds : ThreadStep(i)
SpecOrient == InitOrient /\ [][NextOrient]_vars

\* the agent receiving its first face_tracking command, with detections
\* around the deadzone bands and both PID outputs
MaxTrackCmds == 1
TrackEnvelopes ==
    {[kind |-> "command", hasCmd |-> TRUE, command |-> <<"face_tracking">>,
      data |-> NoData]}
InitTracker == InitOf(RobotIds, {"ws"}, {TRUE}) /\ armAvail
NextTracker ==
    \/ \E env \in TrackEnvelopes : Receive(env, MaxTrackCmds)
    \/ MainLedBegin
    \/ MainLedEnd
    \/ PreLock
    \/ PreTrack
    \/ PreAction
    \/ CmdStartFaceTracking
    \/ \E j \in ThreadIds : LoopStep(j, TrackFaceInputs, PidOutputs)
SpecTracker == InitTracker /\ [][NextTracker]_vars

\* the telemetry loop of either program on a device without Arm_RGB_set,
\* with the writers that contend for the lock: set_joint commands (app.py)
\* and the tracker loop (both programs)
MaxEmits == 2
MaxTelCmds == 1
SamplerEnvelopes ==
    {[kind |-> "command", hasCmd |-> TRUE, command |-> <<"set_joint">>,
      data |-> d] : d \in CoreSetJointData}
TelEnvelopes ==
    SamplerEnvelopes
    \cup {[kind |-> "command", hasCmd |-> TRUE, command |-> <<"face_tracking">>,
           data |-> NoData]}
InitTelemetry == InitOf({"robot_left"}, Agents, {FALSE}) /\ armAvail
NextTelemetry ==
    \/ \E env \in TelEnvelopes : Receive(env, MaxTelCmds)
    \/ PreLock
    \/ PreTrack
    \/ PreAction
    \/ CmdStartFaceTracking
    \/ CmdSetJoint
    \/ ManualWriteBegin
    \/ \E fault \in BOOLEAN : ManualWriteEnd(fault)
    \/ \E j \in ThreadIds : LoopCentred(j)
    \/ TelemetryStep(Snapshots, MaxEmits)
SpecTelemetry == InitTelemetry /\ [][NextTelemetry]_vars

\* the telemetry loop of either program, with the set_joint commands of
\* app.py as the writers
NextSampler ==
    \/ \E env \in SamplerEnvelopes : Receive(env, MaxTelCmds)
    \/ PreLock
    \/ PreTrack
    \/ PreAction
    \/ CmdSetJoint
    \/ ManualWriteBegin
    \/ \E fault \in BOOLEAN : ManualWriteEnd(fault)
    \/ TelemetryStep(Snapshots, MaxEmits)
SpecSampler == InitTelemetry /\ [][NextSampler]_vars

\* the callback thread alone, handling manual commands with every value of
\* their data fields; no thread was started, so the joins have nothing to wait
\* for
MaxManualCmds == 1
NextManual ==
    \/ \E env \in ManualEnvelopes : Receive(env, MaxManualCmds)
    \/ MainLedBegin
    \/ MainLedEnd
    \/ PreLock
    \/ PreTrack
    \/ PreAction
    \/ CmdSetJoint
    \/ CmdSetJoints
    \/ CmdNudgeJoint
    \/ NudgeReadBegin
    \/ \E raw \in ReadValues : NudgeReadEnd(raw)
    \/ ManualWriteBegin
    \/ \E fault \in BOOLEAN : ManualWriteEnd(fault)
SpecManual == Init /\ [][NextManual]_vars

\* ------------------------------------------------------------------ claims
\* the gesture threads that have not returned from their gesture routine
RunningGestures == {i \in ThreadIds : thr[i].st = "alive" /\ thr[i].ph = "run"}
\* the tracker loops that are running
RunningLoops == {j \in ThreadIds : loops[j].st = "alive"}

\* C1: in every reachable state at most one actuation activity (a gesture
\* thread that has not returned from its gesture routine, or a tracker
\* loop) is running.
C1_AtMostOneActivity ==
    Cardinality(RunningGestures) + Cardinality(RunningLoops) <= 1

\* C2: when the activity of a command is started, the activity of every
\* earlier command has reached a terminal status: no gesture thread is still
\* in its routine and no tracker loop is still running.
C2_PreviousTerminalBeforeStart ==
    [][(nThr' > nThr \/ nLoops' > nLoops)
         => (RunningGestures = {} /\ RunningLoops = {})]_vars

\* the servo reads and writes among the device calls
ServoCalls(calls) == {c \in calls : c.op \in {"read", "write", "write6"}}

\* C3: every servo read or write in progress holds the one shared arbiter
\* lock, and no two of them are in progress at the same time.
C3_CallsUnderSharedLock ==
    /\ \A c \in ServoCalls(inCall) : c.lock = "shared" /\ armLock = c.who
    /\ Cardinality(ServoCalls(inCall)) <= 1

\* C4: a hug that is still in its routine when the preemption of init_pose
\* has set its cancel flag returns hug_cancelled.
C4_HugCancelledByInitPose ==
    [][\A i \in ThreadIds :
         (/\ mainCmd \in InitPoseCmds
          /\ mainPc = "pre_action_join"
          /\ actionThread = i
          /\ thr[i].g = "hug"
          /\ thr[i].ph = "run"
          /\ thr'[i].ph = "ret")
         => thr'[i].outcome = "hug_cancelled"]_vars

\* the angles (in half degrees) of a device write lie in [0, 180] degrees
AnglesInRange(angles2) ==
    \A k \in 1..Len(angles2) :
        2 * AngleMin <= angles2[k] /\ angles2[k] <= 2 * AngleMax

\* C5: every angle of every write in progress on the device (manual writes,
\* gesture poses, tracker pose) and of the ready pose lies in [0, 180].
C5_WrittenAnglesInRange ==
    /\ \A c \in inCall : AnglesInRange(c.angles2)
    /\ AnglesInRange(Half(NeutralPose))


\* C6: a cancellation flag that is set (the cancel event of a gesture, the
\* stop event of the tracker) stays set while the thread of its activity
\* is alive.
C6_CancelFlagMonotonic ==
    [][/\ \A i \in ThreadIds :
            (cancel[i] /\ thr[i].st = "alive" /\ thr'[i].st = "alive")
            => cancel'[i]
       /\ (stopEvent /\ \E j \in ThreadIds :
                           loops[j].st = "alive" /\ loops'[j].st = "alive")
          => stopEvent']_vars

\* the positions of the callback thread inside _preempt_current
PreemptPcs ==
    {"pre_lock", "pre_track", "pre_track_join", "pre_action", "pre_action_join"}
\* the positions of the callback thread inside a command handler
HandlerPcs == {"sa_lock", "mw", "mw_c", "nr", "nr_c", "stop_join"}

\* C7: _preempt_current always returns, also when the cancelled thread does
\* not end during the join, and when it has returned the action thread,
\* the cancel flag and the current command are cleared and the command lock
\* is not held by the callback thread.
C7_PreemptTerminatesCleared ==
    /\ [](mainPc = "dispatch"
            => /\ actionThread = NoThread
               /\ actionCancel = NoThread
               /\ currentCmd = NoCmd
               /\ cmdLock # MainId)
    /\ ((mainPc \in PreemptPcs) ~> (mainPc = "dispatch"))

\* C7 witness: the preemption has returned while the cancelled gesture
\* thread is still alive (its join was abandoned)
C7_Witness ==
    /\ mainPc = "dispatch"
    /\ \E i \in ThreadIds : thr[i].st = "alive" /\ cancel[i]

\* the acknowledgement of the command in hand is the one event sent so far
AckSent == out' = <<Ev("ack", mainCmd', "accepted", "")>>

\* C8: for a valid command the accepted acknowledgement is sent, then (after
\* the LED is set, on a device that has one) _preempt_current runs until it
\* returns, then the handler is entered: the handler is never entered before
\* the preemption has returned.
C8_AckPreemptDispatchOrder ==
    [][/\ (mainPc \notin MainLedPcs /\ mainPc' \in MainLedPcs /\ mainPc' = "led_ack")
          => (mainPc = "idle" /\ AckSent)
       /\ (mainPc # "pre_lock" /\ mainPc' = "pre_lock")
          => (/\ mainPc \in {"idle", "led_ack", "led_ack_c"}
              /\ AckSent
              /\ mainPc # "idle" => (out' = out /\ mainCmd' = mainCmd))
       /\ (mainPc \in PreemptPcs) => (mainPc' \in PreemptPcs \cup {"dispatch"})
       /\ (mainPc # "dispatch" /\ mainPc' = "dispatch")
          => (mainPc \in {"pre_action", "pre_action_join"}
              /\ cmdLock = MainId /\ cmdLock' = Free)
       /\ (mainPc \notin HandlerPcs /\ mainPc' \in HandlerPcs)
          => mainPc = "dispatch"
       /\ (nThr' # nThr \/ nLoops' # nLoops
           \/ (Len(out') > Len(out) /\ out'[Len(out')].type \in {"result", "progress"}))
          => (mainPc \in HandlerPcs \cup {"dispatch"}
              /\ out[1] = Ev("ack", mainCmd, "accepted", ""))]_vars

\* C8 witness: a handler has been entered after the preemption cancelled a
\* running gesture
C8_Witness ==
    /\ mainPc \in HandlerPcs
    /\ out[1].type = "ack"
    /\ \E i \in ThreadIds : thr[i].st = "alive" /\ cancel[i]

\* C9: the accepted acknowledgement and the preemption happen only for
\* mapped commands.
C9_AckAndPreemptOnlyMapped ==
    /\ \A k \in 1..Len(out) : out[k].type = "ack" => out[k].command \in MappedCmds
    /\ (mainPc \in PreemptPcs) => (mainCmd \in MappedCmds)

\* the device calls of the callback thread that are in progress
MainCalls(calls) == {c \in calls : c.who = MainId}

\* C10: an envelope whose command is empty after the trim gets exactly the
\* missing_command error, an envelope whose trimmed command is unmapped gets
\* exactly one unknown_command error (after its acknowledgement), and neither
\* starts a gesture thread, a tracker loop or a servo call of the callback
\* thread (the LED is set after the acknowledgement).
C10_RejectedCommands ==
    [][/\ \A env \in CoreEnvelopes :
            (env.kind = "command" /\ CommandOf(env) = << >> /\ Receive(env, MaxCmds))
            => (/\ out' = <<Ev("error", NoCmd, "", "missing_command")>>
                /\ mainPc' = "idle"
                /\ UNCHANGED <<nThr, nLoops, inCall>>)
       /\ (mainCmd \notin MappedCmds /\ mainCmd # NoCmd
           /\ mainPc # "idle" /\ mainPc' = "idle")
          => out' = <<Ev("ack", mainCmd, "accepted", ""),
                      Ev("error", mainCmd, "", "unknown_command")>>
       /\ (mainCmd' \notin MappedCmds /\ mainCmd' # NoCmd)
          => (/\ nThr' = nThr
              /\ nLoops' = nLoops
              /\ \A c \in MainCalls(inCall') : c.op = "rgb")]_vars

\* C10 witness: an unmapped command has been answered
C10_Witness ==
    /\ mainPc = "idle"
    /\ mainCmd = <<"bogus">>
    /\ Len(out) = 2
    /\ out[2].error = "unknown_command"

\* the delta of the envelope is present and is a whole number
IntegralDelta(data) == DeltaOf(data) # NoneV /\ DeltaOf(data) % 10 = 0
\* the validation error that the envelope of a manual command deserves
ValidationError(cmd, data) ==
    IF cmd \in {<<"set_joint">>, <<"nudge_joint">>} /\ ~ValidSid(SidOf(data))
    THEN "invalid_sid"
    ELSE IF cmd = <<"set_joint">> /\ data.angle = NoneV THEN "missing_angle"
    ELSE IF cmd = <<"nudge_joint">> /\ ~IntegralDelta(data) THEN "invalid_delta"
    ELSE ""
\* the handler leaves its dispatch step
Dispatched == mainPc = "dispatch" /\ mainPc' # "dispatch"

\* C11: a manual command that fails validation (id outside 1..6, set_joint
\* without angle, nudge_joint with a delta that is not a whole number) gets
\* that error as its result and the handler makes no device call.
C11_InvalidManualRejected ==
    [][(Dispatched /\ ActionsAvail /\ ValidationError(mainCmd, mainArg.data) # "")
       => (/\ mainPc' = "idle"
           /\ out' = Append(out, Ev("result", mainCmd, "error",
                                    ValidationError(mainCmd, mainArg.data)))
           /\ MainCalls(inCall') = {})]_vars

\* the time_ms of the envelope is absent or a whole number
TimeIsInt(data) == data.t \notin {NoneV, RejectedV, EmptyV}
\* C12: when the read of nudge_joint returns no value, the result is
\* read_failed and no write follows: a write of nudge_joint always has a
\* value that was read, and without one the read ends at idle with no device
\* call (with read_failed, whatever the time_ms, when the read failed).
C12_NudgeReadFailedNoWrite ==
    [][(mainPc = "nr_c" /\ mainPc' # "nr_c")
       => /\ \/ /\ mainPc' = "idle"
                /\ MainCalls(inCall') = {}
                /\ \/ out' = Append(out, OutcomeEv(mainCmd, "error:read_failed"))
                   \/ ~TimeIsInt(mainArg.data)
             \/ /\ mainPc' = "mw"
                /\ mainArg'.raw # NoneV
                /\ mainArg'.raw \in ReadValues
          /\ NudgeReadEnd(NoneV)
             => (/\ mainPc' = "idle"
                 /\ out' = Append(out, OutcomeEv(mainCmd, "error:read_failed"))
                 /\ MainCalls(inCall') = {})]_vars

\* C12 witness: a nudge_joint whose read failed has been answered
C12_Witness ==
    /\ mainPc = "idle"
    /\ mainCmd = <<"nudge_joint">>
    /\ Len(out) = 2
    /\ out[2].outcome = "error:read_failed"
    /\ inCall = {}

\* C13: set_joints whose angles are not a list of exactly 6 elements gets
\* invalid_angles as its result and makes no device call.
C13_InvalidAnglesRejected ==
    [][(/\ Dispatched
        /\ ActionsAvail
        /\ mainCmd = <<"set_joints">>
        /\ ~(mainArg.data.angles.list /\ Len(mainArg.data.angles.items) = 6))
       => (/\ mainPc' = "idle"
           /\ out' = Append(out, OutcomeEv(mainCmd, "error:invalid_angles"))
           /\ MainCalls(inCall') = {})]_vars

\* C13 witness: a set_joints with a wrong angles value has been answered
C13_Witness ==
    /\ mainPc = "idle"
    /\ mainCmd = <<"set_joints">>
    /\ Len(out) = 2
    /\ out[2].outcome = "error:invalid_angles"

\* the call that set_joint must make for the data of its envelope
SetJointCall(data) ==
    Call(MainId, "shared", "write",
         IF data.id \in {NoneV, 0, EmptyV} THEN data.sid ELSE data.id,
         <<2 * (IF data.angle > 180 THEN 180
                ELSE IF data.angle < 0 THEN 0 ELSE data.angle)>>,
         IF data.t = AbsentV THEN 500 ELSE IF data.t < 0 THEN 0 ELSE data.t)

\* the id of the envelope is a whole number in 1..6
IdInRange(data) ==
    LET sid == IF data.id \in {NoneV, 0, EmptyV} THEN data.sid ELSE data.id
    IN sid \in 1..6

\* C14: set_joint with an id in 1..6, an integer angle and a time_ms that is
\* a whole number (500 when absent) makes exactly one device write, to joint
\* id with the angle min(180, max(0, angle)) and the duration
\* max(0, time_ms); its result is ok when the write returns without a fault,
\* and the error of the fault when the device raises.
C14_SetJointWritesClamped ==
    [][(/\ ActionsAvail
        /\ mainCmd = <<"set_joint">>
        /\ IdInRange(mainArg.data)
        /\ mainArg.data.angle \notin {NoneV, RejectedV, EmptyV}
        /\ TimeIsInt(mainArg.data))
       => (/\ Dispatched => (mainPc' = "mw" /\ MainCalls(inCall') = {})
           /\ (mainPc = "mw" /\ mainPc' # "mw")
              => (/\ mainPc' = "mw_c"
                  /\ MainCalls(inCall') = {SetJointCall(mainArg.data)})
           /\ (mainPc = "mw_c" /\ mainPc' # "mw_c")
              => (/\ mainPc' = "idle"
                  /\ MainCalls(inCall') = {}
                  /\ out' = Append(out, OutcomeEv(mainCmd,
                                 IF ManualWriteEnd(FALSE) THEN "ok"
                                 ELSE "error:fault"))))]_vars

\* C14 witness: set_joint is writing an angle and a duration that it clamped
C14_Witness ==
    /\ mainPc = "mw_c"
    /\ mainCmd = <<"set_joint">>
    /\ mainArg.data.angle = 250
    /\ mainArg.data.t = -10
    /\ \E c \in inCall : c.who = MainId /\ c.angles2 = <<360>> /\ c.t = 0

\* the write of nudge_joint in progress is the one the envelope and the
\* angle that was read call for: min(180, max(0, c + delta)) to that joint
NudgeWriteIsClampedSum ==
    LET sum == mainArg.raw + (DeltaOf(mainArg.data) \div 10)
        target == IF sum > 180 THEN 180 ELSE IF sum < 0 THEN 0 ELSE sum
    IN /\ mainArg.raw # NoneV
       /\ IdInRange(mainArg.data)
       /\ \A c \in MainCalls(inCall) :
             /\ c.op = "write"
             /\ c.sid = SidOf(mainArg.data)
             /\ c.angles2 = <<2 * target>>
       /\ MainCalls(inCall) # {}
\* nudge_joint with a whole delta is in its write
NudgeWriting ==
    /\ mainCmd = <<"nudge_joint">>
    /\ mainPc = "mw_c"
    /\ IntegralDelta(mainArg.data)

\* C15 (as stated): nudge_joint with a valid id, a whole delta and a readable
\* current angle c writes exactly min(180, max(0, c + delta)) to that joint
\* and returns ok.
C15_NudgeWritesAndReturnsOk ==
    [][NudgeWriting
       => (/\ NudgeWriteIsClampedSum
           /\ mainPc' # "mw_c"
              => out' = Append(out, OutcomeEv(mainCmd, "ok")))]_vars

\* C15 (amended): nudge_joint with a valid id, a whole delta and a readable
\* current angle c writes exactly min(180, max(0, c + delta)) to that joint;
\* its result is ok when the write returns without a fault, and the error of
\* the fault when the device raises.
C15_NudgeWritesClampedSum ==
    [][NudgeWriting
       => (/\ NudgeWriteIsClampedSum
           /\ mainPc' # "mw_c"
              => (/\ mainPc' = "idle"
                  /\ out' = Append(out, OutcomeEv(mainCmd,
                                 IF ManualWriteEnd(FALSE) THEN "ok"
                                 ELSE "error:fault"))))]_vars

\* C15 witness: nudge_joint is writing the sum, clamped at the upper limit
C15_Witness ==
    /\ mainPc = "mw_c"
    /\ mainCmd = <<"nudge_joint">>
    /\ mainArg.raw = 175
    /\ mainArg.data.delta10 = 100
    /\ \E c \in inCall : c.who = MainId /\ c.op = "write" /\ c.angles2 = <<360>>

\* the telemetry loop sends an event in this step
TelEmits == tel'.sent = tel.sent + 1
\* the telemetry loop ends an iteration in this step
TelIterationEnds == telPc # "idle" /\ telPc' = "idle"
\* some axis differs by at least one degree, or is None on one side only
AxisChanged(new, old) ==
    \E k \in 1..6 :
        \/ (new[k] = NoneV) # (old[k] = NoneV)
        \/ /\ new[k] # NoneV
           /\ old[k] # NoneV
           /\ (new[k] - old[k] >= 1 \/ old[k] - new[k] >= 1)

\* C16: the telemetry loop sends a joint_state event only for the first
\* successful sample, or when some axis differs from the last sent snapshot
\* by at least one degree (None against a value is a change), or when the
\* force interval has elapsed since the last event; so a sample equal to the
\* last sent one, inside the force interval, sends nothing.
C16_TelemetryEmitsOnlyOnChange ==
    [][/\ TelEmits
          => (\/ ~tel.firstSent
              \/ AxisChanged(tel'.ev.angles, tel.last)
              \/ tel.force)
       /\ (/\ TelIterationEnds
           /\ tel.firstSent
           /\ ~tel.force
           /\ tel'.angles = tel.last)
          => (tel'.sent = tel.sent /\ tel'.ev = tel.ev)]_vars

\* C16 witness: a second sample equal to the one sent, inside the force
\* interval, has sent nothing
C16_Witness ==
    /\ telPc = "idle"
    /\ tel.sent = 1
    /\ tel.firstSent
    /\ ~tel.force
    /\ tel.angles = tel.last
    /\ tel.angles # << >>

\* a read of this iteration fails in this step: a read under one hold
\* raises, or the read of an axis gives a value that int() rejects
TelReadFaulted ==
    \/ telPc = "reading" /\ tel'.angles = << >>
    \/ telPc = "axis" /\ telPc' = "idle" /\ tel'.angles = << >>

\* C17: an iteration of the telemetry loop that starts when the force
\* interval has elapsed since the last event, and whose servo reads do not
\* fail, sends a joint_state event, whatever holds the lock.
C17_HeartbeatWhenForceElapsed ==
    [][(TelIterationEnds /\ tel.force /\ ~TelReadFaulted) => TelEmits]_vars

\* C18: every joint_state event carries a sequence number, and it is greater
\* than the one of the event sent before.
C18_SequenceNumbersIncrease ==
    [][TelEmits
       => (/\ tel'.ev.seq # NoneV
           /\ tel.sent > 0 => tel'.ev.seq > tel.ev.seq)]_vars

\* the pose [a0, ..., a5] reflected for the right arm
Reflected(p) == <<180 - p[1], p[2], p[3], p[4], 180 - p[5], p[6]>>
\* the pose of the left arm for the instruction that thread i executes
LeftPose(i) == GestureProg(thr[i].g, "robot_left")[thr[i].ip].pose
\* poses with angles in [0, 180]: the gesture poses and the limits
PoseInputs ==
    { HeartLeftPoses[1], HeartLeftPoses[2], HeartLeftPoses[3], HugLeftOpen,
      HugLeftClose1, HugLeftClose2, HugLeftPatA, HugLeftPatB, NeutralPose,
      <<0, 0, 0, 0, 0, 0>>, <<180, 180, 180, 180, 180, 180>>,
      <<37, 12, 170, 5, 101, 66>> }

\* C19: a gesture pose [a0, ..., a5] is written as
\* [180 - a0, a1, a2, a3, 180 - a4, a5] by the right robot and unchanged by the
\* left or an unnamed robot, and mirroring a pose twice gives it back.
C19_MirroredPoses ==
    /\ \A i \in ThreadIds : \A c \in inCall :
          (c.who = i /\ c.op = "write6" /\ thr[i].st = "alive")
          => c.angles2 = Half(IF robotId = "robot_right"
                              THEN Reflected(LeftPose(i)) ELSE LeftPose(i))
    /\ \A p \in PoseInputs :
          /\ MirrorForRight(p) = Reflected(p)
          /\ MirrorForRight(MirrorForRight(p)) = p
          /\ \A rid \in OrientRobotIds :
                Oriented(p, rid) = IF rid = "robot_right" THEN Reflected(p) ELSE p

\* C19 witness: the right robot is writing the first pose of the heart with
\* its base at 180 degrees
C19_Witness ==
    /\ robotId = "robot_right"
    /\ \E c \in inCall :
          /\ c.who \in ThreadIds
          /\ thr[c.who].g = "heart"
          /\ c.angles2 = Half(<<180, 115, 40, 20, 90, 0>>)

\* the phases of a loop between the assignment of a new target and the end
\* of its clamp
UpdatePhases == {"set", "hi", "hi_set", "lo", "lo_set"}
\* a step of loop j
LoopActs(j) == loops'[j] # loops[j]
\* the centroid lies in the deadzone band of the axis: 260..380 for the pan,
\* 180..300 for the tilt
InBand(a, c) == IF a = "x" THEN 260 <= c /\ c <= 380 ELSE 180 <= c /\ c <= 300

\* C20: a tracker tick with a detected face leaves the pan target unchanged
\* when the horizontal centroid is in the pan deadzone band, and leaves the
\* tilt target unchanged when the vertical centroid is in the tilt band: the
\* tick does not reach the update of that axis, and a target changes only in
\* the update of its axis.
C20_DeadzoneKeepsTarget ==
    [][/\ \A j \in ThreadIds :
            (/\ loops[j].ph \in {"t1", "t2"}
             /\ InBand(loops[j].ax, Centroid(loops[j]))
             /\ LoopActs(j))
            => (/\ loops'[j].ph \notin UpdatePhases
                /\ (loops[j].ph = "t2" => loops'[j] = NextAxis(loops[j]))
                /\ targetX' = targetX
                /\ targetY' = targetY)
       /\ \A a \in {"x", "y"} :
            (AxisTarget(a)' # AxisTarget(a))
            => \E j \in ThreadIds :
                  /\ LoopActs(j)
                  /\ loops[j].ax = a
                  /\ loops[j].ph \in {"set", "hi_set", "lo_set"}
                  /\ ~InBand(a, Centroid(loops[j]))]_vars

\* C20 witness: a tick with a centroid inside the pan band only has left the
\* pan target at its initial value and moved the tilt target to its limit
C20_Witness ==
    /\ targetX = 90
    /\ targetY = TiltMax
    /\ \E j \in ThreadIds :
          /\ loops[j].st = "alive"
          /\ loops[j].ph = "w"
          /\ loops[j].lastx = 90
          /\ loops[j].lasty = TiltMax

\* ------------------------------------------------------------ degrade mode
\* either program, with or without an arm, receiving every kind of command
MaxDegradeCmds == 2
InitDegrade == InitOf({"robot_left"}, Agents, {TRUE})
NextDegrade ==
    \/ \E env \in CoreEnvelopes : Receive(env, MaxDegradeCmds)
    \/ CallbackStep(MaxDegradeCmds)
    \/ RunInterrupt(MaxDegradeCmds)
    \/ MainStep
    \/ \E i \in ThreadIds : ThreadStep(i)
    \/ \E j \in ThreadIds : LoopWatch(j)
SpecDegrade == InitDegrade /\ [][NextDegrade]_vars

\* the commands the dispatch table knows
RecognisedCmds ==
    StartTrackingCmds \cup StopTrackingCmds \cup GestureCmds \cup ManualCmds
\* the handler of the command returns with the one event `e` sent
AnsweredWith(e) == out' = Append(out, e) /\ mainPc' = "idle"

\* C21: without an arm, every recognised command is answered
\* with an error result whose error is arm_unavailable.
C21_DegradeAnswersArmUnavailable ==
    [][(Dispatched /\ ~trackerAvail /\ mainCmd \in RecognisedCmds)
        => AnsweredWith(Ev("result", mainCmd, "error", "arm_unavailable"))]_vars

\* the command in hand is one its handler rejects as unavailable
RejectedUnavailable ==
    /\ mainPc # "idle"
    /\ \/ mainCmd \in StartTrackingCmds \cup StopTrackingCmds /\ ~trackerAvail
       \/ mainCmd \in GestureCmds \cup ManualCmds /\ ~ActionsAvail

\* C22: a command rejected with an unavailability error has no side effects:
\* from its receipt to its result the tracker loop that was running is not
\* told to stop, no gesture is cancelled and the handler calls no device.
C22_RejectedHasNoSideEffects ==
    [][RejectedUnavailable
        => (/\ stopEvent' = stopEvent
            /\ ftThread' = ftThread
            /\ cancel' = cancel
            /\ MainCalls(inCall') = {})]_vars

\* ---------------------------------------------------- restart on same kind
\* the handler of a tracking start returns with the tracker started
TrackingStarts ==
    /\ mainPc = "dispatch"
    /\ mainCmd \in StartTrackingCmds
    /\ trackerAvail
    /\ mainPc' \in {"idle", "led_end"}
\* after the step the one live tracker loop is a loop that did not exist
FreshLoopOnly ==
    /\ ftThread' \in ThreadIds
    /\ loops[ftThread'].st = "unborn"
    /\ \A j \in ThreadIds : loops'[j].st = "alive" => j = ftThread'
\* _start_action starts the thread of the gesture
GestureStarts == mainPc = "sa_lock" /\ mainPc' = "idle"
\* after the step the new thread is at its first pose, and every other
\* thread still in its gesture routine has been cancelled
FreshRunOnly ==
    /\ actionThread' \in ThreadIds
    /\ thr[actionThread'].st = "unborn"
    /\ thr'[actionThread'].ip = 1
    /\ \A i \in RunningGestures : cancel'[i]

\* C23: every accepted command preempts, also one of the kind that is
\* active: a tracking start received while tracking runs stops the running
\* loop and starts a fresh one, and a gesture command received while the
\* same gesture runs cancels that run and starts a new run from its first
\* pose.
C23_SameKindRestarts ==
    [][/\ TrackingStarts => FreshLoopOnly
       /\ GestureStarts => FreshRunOnly]_vars

\* ------------------------------------------- the tracker's start and stop
\* a caller of FaceTrackingController.start() and stop(); `out` holds what
\* the call in hand has returned
MaxCtlCalls == 3
Returned(op, value) ==
    Ev("return", <<op>>, IF value THEN "True" ELSE "False", "")

\* FaceTrackingController.start()
ControllerStart ==
    /\ mainPc = "idle"
    /\ trackerAvail
    /\ cmdCount < MaxCtlCalls
    /\ cmdCount' = cmdCount + 1
    /\ mainCmd' = <<"start">>
    /\ IF ftThread # NoThread /\ LoopAlive(ftThread)
       THEN /\ out' = <<Returned("start", FALSE)>>
            /\ UNCHANGED trkVars
       ELSE /\ stopEvent' = FALSE
            /\ nLoops' = nLoops + 1
            /\ loops' = [loops EXCEPT ![nLoops + 1] =
                           [UnbornLoop EXCEPT !.st = "alive", !.ph = "open"]]
            /\ ftThread' = nLoops + 1
            /\ out' = <<Returned("start", TRUE)>>
            /\ UNCHANGED <<targetX, targetY>>
    /\ UNCHANGED <<armAvail, devVars, mainPc, mainArg, lockVars, actVars,
                   telVars, inCall>>

\* FaceTrackingController.stop() up to its join
ControllerStop ==
    /\ mainPc = "idle"
    /\ trackerAvail
    /\ cmdCount < MaxCtlCalls
    /\ cmdCount' = cmdCount + 1
    /\ mainCmd' = <<"stop">>
    /\ IF ftThread = NoThread
       THEN /\ out' = <<Returned("stop", FALSE)>>
            /\ UNCHANGED <<mainPc, stopEvent>>
       ELSE /\ stopEvent' = TRUE
            /\ out' = << >>
            /\ mainPc' = "ctl_join"
    /\ UNCHANGED <<armAvail, devVars, mainArg, lockVars, actVars, ftThread,
                   loops, nLoops, targetX, targetY, telVars, inCall>>

\* FaceTrackingController.stop(): the join, _thread = None, return True
ControllerStopJoin ==
    /\ mainPc = "ctl_join"
    /\ JoinReturns(LoopAlive(ftThread), LoopBlockedBy(ftThread, MainId))
    /\ ftThread' = NoThread
    /\ out' = <<Returned("stop", TRUE)>>
    /\ mainPc' = "idle"
    /\ UNCHANGED <<armAvail, devVars, cmdCount, mainCmd, mainArg, lockVars,
                   actVars, stopEvent, loops, nLoops, targetX, targetY, telVars,
                   inCall>>

InitController == InitOf(RobotIds, {"ws"}, {TRUE}) /\ armAvail
NextController ==
    \/ ControllerStart
    \/ ControllerStop
    \/ ControllerStopJoin
    \/ \E j \in ThreadIds : LoopStep(j, CoreFaceInputs, CorePidOutputs)
SpecController == InitController /\ [][NextController]_vars

\* a call of start() or stop() begins
StartCalled == mainPc = "idle" /\ mainCmd' = <<"start">> /\ cmdCount' # cmdCount
StopCalled == mainPc = "idle" /\ mainCmd' = <<"stop">> /\ cmdCount' # cmdCount
\* stop() returns
StopReturns == mainCmd' = <<"stop">> /\ out' # out /\ out' # << >>

\* C24: start() on a running tracker returns False, creates no second loop
\* and changes no state; stop() on an idle tracker returns False and changes
\* no state (so a second stop() is the same as one); after stop() returns
\* the tracker is idle.
C24_TrackerStateMachine ==
    [][/\ (StartCalled /\ IsRunning)
           => (out' = <<Returned("start", FALSE)>> /\ UNCHANGED trkVars)
       /\ (StopCalled /\ ~IsRunning)
           => (out' = <<Returned("stop", FALSE)>> /\ UNCHANGED trkVars)
       /\ StopReturns => ~IsRunning']_vars

\* ------------------------------------------------------ gesture routines
\* the thread is inside a hold of its gesture routine
InHold(rec) == rec.st = "alive" /\ rec.ph = "run" /\ InstrAt(rec).op = "H"
\* the gesture routine has returned "<gesture>_cancelled"
ReturnedCancelled(rec) ==
    rec.st = "alive" /\ rec.ph = "ret" /\ rec.outcome = CancelledOutcome(rec.g)

\* C25: a gesture whose cancellation flag is set while it is in a hold
\* returns <gesture>_cancelled without a further pose write: from a hold
\* with the flag set, the routine goes on holding or returns cancelled.
C25_CancelInHoldStopsWrites ==
    [][\A i \in ThreadIds :
          (InHold(thr[i]) /\ cancel[i])
              => (InHold(thr'[i]) \/ ReturnedCancelled(thr'[i]))]_vars

\* the poses of each GestureSpec, in order, ending with the fixed neutral
\* pose; init_pose is the neutral pose alone
GesturePoses(g, rid) ==
    IF g = "heart"
    THEN << Oriented(HeartLeftPoses[1], rid), Oriented(HeartLeftPoses[2], rid),
            Oriented(HeartLeftPoses[3], rid), NeutralPose >>
    ELSE IF g = "hug"
    THEN << Oriented(HugLeftOpen, rid), Oriented(HugLeftClose1, rid),
            Oriented(HugLeftClose2, rid), Oriented(HugLeftPatA, rid),
            Oriented(HugLeftPatB, rid), Oriented(HugLeftPatA, rid),
            Oriented(HugLeftPatB, rid), NeutralPose >>
    ELSE << NeutralPose >>
\* the number of pose writes the routine has reached, the one at ip included
WritesUpTo(rec) ==
    Cardinality({k \in 1..rec.ip : GestureProg(rec.g, robotId)[k].op \in {"W", "D"}})
\* thread i sends a pose for the first time
FirstSend(i) ==
    /\ thr[i].st = "alive"
    /\ thr[i].ph = "run"
    /\ thr[i].sub = "a"
    /\ thr'[i].sub = "b"
\* the routine of thread i returns "<gesture>_completed"
ReturnsCompleted(i) ==
    /\ thr[i].st = "alive"
    /\ thr[i].ph = "run"
    /\ thr'[i].ph = "ret"
    /\ thr'[i].outcome = CompletedOutcome(thr[i].g)
\* the writes of the gestures in gs follow their GestureSpec
PosesInOrder(gs) ==
    \A i \in ThreadIds :
        (thr[i].g \in gs /\ ~cancel[i])
        => /\ FirstSend(i)
               => \E c \in inCall' \ inCall :
                     /\ c.who = i
                     /\ WritesUpTo(thr[i]) <= Len(GesturePoses(thr[i].g, robotId))
                     /\ c.angles2 =
                          Half(GesturePoses(thr[i].g, robotId)[WritesUpTo(thr[i])])
           /\ ReturnsCompleted(i)
               => WritesUpTo(thr[i]) = Len(GesturePoses(thr[i].g, robotId))

\* C26: a gesture run that is never cancelled writes the poses of its
\* GestureSpec in order and its last device write is the fixed neutral pose,
\* for make_heart, hug and init_pose.
C26_PosesInOrderThenNeutral == [][PosesInOrder({"heart", "hug", "init"})]_vars

\* a send of thread i ends: it returns, or raises the device's fault
SendEnds(i) ==
    /\ thr[i].st = "alive"
    /\ thr[i].ph = "run"
    /\ thr[i].sub \in {"b", "d"}
    /\ thr'[i] # thr[i]
\* no pose of the routine comes after the instruction the thread is at
NoPoseAfter(rec) ==
    \A k \in (rec.ip + 1)..Len(GestureProg(rec.g, robotId)) :
        GestureProg(rec.g, robotId)[k].op = "H"
GestureOutcomes(g) == {CompletedOutcome(g), CancelledOutcome(g)}

\* C27: a device fault in a pose write of a gesture is swallowed: whether a
\* send returns or raises, the routine goes on to the resend or to its next
\* instruction, so the remaining poses are written in order, or, with no
\* pose left, returns <gesture>_completed; and a routine returns only
\* <gesture>_completed or <gesture>_cancelled.
C27_WriteFaultsSwallowed ==
    [][\A i \in ThreadIds :
          /\ SendEnds(i)
              => \/ thr'[i] = [thr[i] EXCEPT !.sub = "c"]
                 \/ /\ thr'[i].ph = "run"
                    /\ thr'[i].ip = thr[i].ip + 1
                    /\ thr'[i].sub = "a"
                 \/ /\ NoPoseAfter(thr[i])
                    /\ thr'[i].ph = "ret"
                    /\ thr'[i].outcome = CompletedOutcome(thr[i].g)
          /\ (thr[i].ph = "run" /\ thr'[i].ph = "ret")
              => thr'[i].outcome \in GestureOutcomes(thr[i].g)]_vars

\* init_pose has returned init_completed from the handler of the fault of
\* its write
C27_Witness ==
    \E i \in ThreadIds :
        /\ thr[i].g = "init"
        /\ thr[i].ph = "ret"
        /\ thr[i].ip = 1
        /\ thr[i].outcome = "init_completed"

\* thread i is at a pose write of its routine
AtPoseWrite(i) ==
    thr[i].st = "alive" /\ thr[i].ph = "run" /\ Instr(i).op \in {"W", "D"}
\* thread i begins a send (the first, or the resend)
SendBegins(i) == AtPoseWrite(i) /\ thr[i].sub \in {"a", "c"} /\ thr'[i] # thr[i]

\* C28: every pose write of every gesture is sent once under the arbiter
\* and then at most once more: each send of a gesture thread is a device
\* call that holds the shared lock, a pose is left only after a send (at
\* least once), and after the second send the routine moves on (at most
\* twice).
C28_ReliableWriteUnderArbiter ==
    [][\A i \in ThreadIds :
          /\ SendBegins(i)
              => /\ thr'[i].sub = IF thr[i].sub = "a" THEN "b" ELSE "d"
                 /\ \E c \in inCall' \ inCall : c.who = i /\ c.lock = "shared"
          /\ (SendEnds(i) /\ thr[i].sub = "d")
              => (thr'[i].ph = "ret" \/ thr'[i].ip # thr[i].ip)]_vars

\* ---------------------------------------------------- waiting for the lock
\* the writers that contend for the lock (set_joint commands, the tracker
\* loop, the LED of the callback thread) and the telemetry loop of app.py
\* with its force interval elapsed at every iteration: each read is the
\* forced one, which waits for the lock and falls back to the best-effort
\* read
\* the two writers' commands: a valid set_joint and face_tracking
ArbiterEnvelopes ==
    {[kind |-> "command", hasCmd |-> TRUE, command |-> <<"set_joint">>,
      data |-> [NoData EXCEPT !.id = 3, !.angle = 250, !.t = 500]],
     [kind |-> "command", hasCmd |-> TRUE, command |-> <<"face_tracking">>,
      data |-> NoData]}
\* app.py on a device without Arm_RGB_set: the holders of the lock are the
\* manual write, the tracker write and the telemetry reads
InitArbiter == InitOf({"robot_left"}, {"ws"}, {FALSE}) /\ armAvail
\* the tracker loops that the commands of a behaviour can start
ArbiterLoops == 1..MaxTelCmds
\* what the read of an axis gives here: the angle of the snapshot, or a
\* value that int() rejects; the None of a read that raises is the None
\* that a held lock gives
ArbiterReads == {RejectedV} \cup UNION {AxisValues(CoreSnapshots, k) : k \in 1..6}
NextArbiter ==
    \/ \E env \in ArbiterEnvelopes : Receive(env, MaxTelCmds)
    \/ PreLock
    \/ PreTrack
    \/ PreAction
    \/ CmdStartFaceTracking
    \/ CmdSetJoint
    \/ ManualWriteBegin
    \/ \E fault \in BOOLEAN : ManualWriteEnd(fault)
    \/ \E j \in ThreadIds : LoopCentred(j)
    \/ TelemetryTop(TRUE, MaxCoreEmits)
    \/ TelemetryReadBegin
    \/ TelemetryLockBusy
    \/ \E snap \in CoreSnapshots : TelemetryReadEnd(snap)
    \/ \E v \in ArbiterReads :
          TelemetryAxisEnd(v, CoreSnapshots)
SpecArbiter == InitArbiter /\ [][NextArbiter]_vars
\* the threads run; a thread blocked in `with _arm_io_lock` gets the lock
\* once it is free often enough: every holder sleeps after its release (the
\* telemetry loop between reads, the tracker between frames)
FairSpecArbiter ==
    /\ SpecArbiter
    /\ WF_vars(PreLock \/ PreTrack \/ PreAction \/ CmdStartFaceTracking
                \/ CmdSetJoint)
    /\ SF_vars(ManualWriteBegin)
    /\ WF_vars(\E fault \in BOOLEAN : ManualWriteEnd(fault))
    /\ \A j \in ArbiterLoops :
          /\ SF_vars(TrackerWriteBegin(j))
          /\ WF_vars(TrackerWriteEnd(j))
    /\ WF_vars(\E snap \in CoreSnapshots : TelemetryReadEnd(snap))
    /\ WF_vars(\E v \in ArbiterReads :
                  TelemetryAxisEnd(v, CoreSnapshots))
    /\ WF_vars(TelemetryReadBegin \/ TelemetryLockBusy)

\* C29: every holder of the arbiter releases it after its device call, and
\* every writer that wants the arbiter gets to its write: a manual write
\* that waits for the lock returns to the callback loop, a tracker write
\* that waits is performed, and a telemetry read that finds the lock held
\* skips the sample or the axis.
C29_ArbiterWaitsEnd ==
    /\ (armLock # Free) ~> (armLock = Free)
    /\ (mainPc = "mw") ~> (mainPc = "idle")
    /\ \A j \in ArbiterLoops : (loops[j].ph = "w") ~> (loops[j].ph = "top")
    /\ (telPc \in {"acq_forced", "acq_try"}) ~> (telPc \in {"reading", "axis", "idle"})

\* a manual write waits while the tracker or the telemetry read holds the
\* arbiter
C29_Witness ==
    /\ mainPc = "mw"
    /\ armLock \in {TelId} \cup {LoopId(j) : j \in ThreadIds}

\* the telemetry loop leaves the acquire of its read in this step
AcquireEnds(pc) == telPc = pc /\ telPc' # pc

\* C30: a non-forced telemetry read never waits for the arbiter: when the
\* lock is held it yields None for the axis it cannot read and goes on with
\* the next axis, or with that sample after the sixth; only the forced read
\* may block, and it gives up after its timeout.
C30_OpportunisticReadNeverWaits ==
    [][/\ (telPc \in {"acq_forced", "acq_try"})
           => ENABLED (TelemetryReadBegin \/ TelemetryLockBusy)
       /\ (AcquireEnds("acq_try") \/ (telPc = "acq_try" /\ tel' # tel))
           => (/\ Len(tel.angles) < 6
               /\ armLock # Free
                  => (/\ tel'.angles = Append(tel.angles, NoneV)
                      /\ telPc' = IF Len(tel.angles) = 5 THEN "idle" ELSE "acq_try"))
       /\ (AcquireEnds("acq_forced") /\ armLock # Free)
           => (telPc' \in {"acq_try", "idle"} /\ armLock' = armLock)]_vars

\* ------------------------------------------------------- tracker writes
\* loop j, which has written nothing yet, decides to write
FirstWriteDecided(j) ==
    /\ loops[j].ph = "dec"
    /\ loops[j].lastx = NoneV
    /\ loops'[j].ph = "w"
\* the last write of the tracker was made by loop k: k has written and waits
\* for no write, and the one other loop has written nothing
LastWriteBy(k, j) ==
    /\ nLoops = 2
    /\ j # k
    /\ loops[j].lastx = NoneV
    /\ loops[k].lastx # NoneV
    /\ loops[k].ph # "w"

\* C31: the tracker writes a pose only if the commanded pan or tilt value
\* differs by at least 1 degree from the value of the last tracker write (or
\* the tracker has written nothing yet): the pose of a write differs on a
\* controlled axis from the pose of the tracker write before it.
C31_WritesDifferFromLastWrite ==
    [][\A j, k \in ThreadIds :
          (FirstWriteDecided(j) /\ LastWriteBy(k, j))
          => (\/ Abs(loops'[j].lastx - loops[k].lastx) >= 1
              \/ Abs(loops'[j].lasty - loops[k].lasty) >= 1)]_vars

\* C32: a tick leaves the pan target unchanged when it is at 180 and the
\* centroid is at or left of the centre, or at 0 and the centroid is at or
\* right of the centre, and the tilt target unchanged when it is at its upper
\* limit and the centroid is at or above the centre, or at 0 and the centroid
\* is at or below the centre; the pan target that a loop reads for its pose is
\* in 0..180, and the tilt target in 0..360, so that the two joints derived
\* from it (its half) are in 0..180, as is every angle of a pose the tracker
\* writes.
C32_DeadEndAndRange ==
    /\ [][\A j \in ThreadIds :
             LET a == loops[j].ax
                 t == AxisTarget(a)
                 c == Centroid(loops[j])
             IN (/\ LoopActs(j)
                 /\ \/ (loops[j].ph = "t1" /\ t = UpperLimit(a) /\ c <= Center(a))
                    \/ (loops[j].ph = "t2" /\ t = 0 /\ c >= Center(a)))
                => (/\ loops'[j] = NextAxis(loops[j])
                    /\ targetX' = targetX
                    /\ targetY' = targetY)]_vars
    /\ [](/\ \A j \in ThreadIds :
                /\ loops[j].ph = "jx" => targetX \in AngleMin..AngleMax
                /\ loops[j].ph \in {"jy", "dec"} => targetY \in 0..(2 * AngleMax)
          /\ \A c \in inCall :
                (c.who \in {LoopId(j) : j \in ThreadIds})
                => \A n \in 1..Len(c.angles2) :
                      c.angles2[n] \in (2 * AngleMin)..(2 * AngleMax))


\* C33: a loop whose camera does not open emits the one error event
\* camera_open_failed and goes to the end of its thread: it makes no device
\* call and never reaches the body of the loop, where the "running" status
\* events are emitted, and once it has ended the tracker is not running.
C33_CameraOpenFailureEndsLoop ==
    [][\A j \in ThreadIds :
          /\ (loops[j].ph = "open" /\ TrackerOpen(j, FALSE))
             => (/\ loops'[j].sent = <<"camera_open_failed">>
                 /\ loops'[j].ph = "release"
                 /\ {c \in inCall' : c.who = LoopId(j)} = {})
          /\ (loops[j].ph = "release" /\ loops'[j] # loops[j])
             => (/\ loops'[j] = DeadLoop
                 /\ inCall' = inCall
                 /\ (ftThread' = j => ~IsRunning'))]_vars

\* C33 witness: the loop of the tracker has emitted camera_open_failed and
\* is leaving
C33_Witness ==
    \E j \in ThreadIds :
       /\ ftThread = j
       /\ loops[j].ph = "release"
       /\ loops[j].sent = <<"camera_open_failed">>

\* ------------------------------------------------------- gesture cleanup
\* the agent of the left robot with an arm, receiving make_heart and hug
\* commands, with every thread that can run scheduled
InitCleanup == InitOf({"robot_left"}, {"ws"}, {TRUE}) /\ armAvail
SpecCleanup == InitCleanup /\ [][NextOrient]_vars
FairSpecCleanup ==
    /\ SpecCleanup
    /\ WF_vars(PreLock \/ PreTrack \/ PreAction \/ PreActionJoin \/ CmdGesture
               \/ StartAction \/ MainLedEnd)
    /\ SF_vars(MainLedBegin)
    /\ \A i \in ThreadIds : WF_vars(ThreadStep(i))

\* C34: every gesture thread that was started eventually ends, whether its
\* routine completed or was cancelled, and the step that ends it is the
\* cleanup of _runner, which leaves the action-thread, cancel-flag and
\* current-command references cleared.
C34_CleanupAlwaysRuns ==
    /\ \A i \in ThreadIds : (thr[i].st = "alive") ~> (thr[i].st = "dead")
    /\ [][\A i \in ThreadIds :
             (thr[i].st = "alive" /\ thr'[i].st = "dead")
             => (/\ thr[i].ph = "fin_lock"
                 /\ actionThread' = NoThread
                 /\ actionCancel' = NoThread
                 /\ currentCmd' = NoCmd)]_vars

\* C34 witness: a cancelled gesture thread has sent its result and waits in
\* its cleanup for the lock that the coordinator holds during the join
C34_Witness ==
    \E i \in ThreadIds :
       /\ thr[i].ph = "fin_lock"
       /\ thr[i].status = "cancelled"
       /\ cmdLock = MainId
       /\ mainPc = "pre_action_join"

\* ------------------------------------------------------ the two programs
\* C35: app_mqtt.py answers a sequence of commands as app.py does in the
\* same availability state. app.py answers a gesture or manual command with
\* the error arm_unavailable only when there is no arm; so neither program,
\* started with an arm, sends an arm_unavailable error.
C35_MqttAnswersAsWebSocket ==
    \A n \in 1..Len(out) : out[n].error = "arm_unavailable" => ~trackerAvail

\* ------------------------------------------------------ activity handles
\* C36: a gesture thread that is alive and whose cancel event is not set is
\* the thread that _action_thread and _action_cancel refer to: no cleanup of
\* an older thread has cleared the references of a newer one.
C36_CleanupKeepsNewerHandle ==
    \A i \in ThreadIds :
       (ThreadAlive(i) /\ ~cancel[i]) => (actionThread = i /\ actionCancel = i)

\* C37: the join of _preempt_current on a cancelled gesture thread returns
\* because the thread has ended, not because the 2 s timeout has elapsed.
C37_JoinEndsByThreadExit ==
    [][(mainPc = "pre_action_join" /\ mainPc' # "pre_action_join")
       => ~ThreadAlive(actionThread)]_vars

\* C38: whatever start() and stop() calls are made, at most one
\* FaceTrackingThread is alive.
C38_OneTrackerLoop ==
    Cardinality({j \in ThreadIds : loops[j].st = "alive"}) <= 1

\* C39: the result event of a gesture has status cancelled exactly when the
\* routine returned <gesture>_cancelled, and status completed exactly when
\* it returned <gesture>_completed.
C39_ResultSelfConsistent ==
    \A i \in ThreadIds :
       thr[i].status # "none"
       => (/\ thr[i].status = "cancelled"
                <=> thr[i].outcome = CancelledOutcome(thr[i].g)
           /\ thr[i].status = "completed"
                <=> thr[i].outcome = CompletedOutcome(thr[i].g))

\* nudge_joint has read the current angle and has not begun its write
NudgeBetweenReadAndWrite ==
    /\ mainCmd = <<"nudge_joint">>
    /\ mainPc = "mw"

\* C40: between the read of nudge_joint and its write no device call of
\* another component begins.
C40_NudgeReadModifyWriteAtomic ==
    [][(NudgeBetweenReadAndWrite /\ NudgeBetweenReadAndWrite')
       => inCall' \subseteq inCall]_vars

====
